---------------------------- MODULE Spec2Model ----------------------------
(***************************************************************************)
(* State-machine model of the asset / budget tracker (React component      *)
(* App).  Two builds of App exist in the repository and are both modelled: *)
(*   build = "App"       src/App.tsx                                       *)
(*   build = "part_004"  src/unnamed/part_004                              *)
(* The build is fixed in Init; a handler that differs between the builds   *)
(* is guarded by the build it belongs to.                                  *)
(*                                                                         *)
(* The source's string literals are not ASCII; the model writes them as    *)
(* ASCII names (TOTAL, OTHER_CAT, ALL, ...) defined below.                     *)
(***************************************************************************)
EXTENDS Integers, Sequences, FiniteSets, TLC

VARIABLES
    build,                  \* which App source is running
    assets,                 \* useState<Asset[]>
    budgets,                \* useState<Budget[]>
    budgetCategoryList,     \* useState<string[]>
    assetCategoryList,      \* useState<string[]>
    customCategoryColors,   \* useState<Record<string,string>>
    selectedAssetCategory,  \* active asset filter
    selectedBudgetCategory, \* active budget filter
    themeColor,             \* useState themeColor
    isAutoTheme,            \* useState isAutoTheme
    backup,                 \* the last exported document (file, clipboard)
    insight,                \* the promise of the last getAIInsights call
    storage,                \* localStorage: the item stored under each key
    idb,                    \* the object store of IndexedDB (part_003)
    boot,                   \* loadAllData and the save effects (part_003)
    now,                    \* the wall clock, in half days since the epoch (UTC)
    tz,                     \* the local time zone offset, in half days
    nextId,                 \* source of fresh ids (Math.random(), Date.now())
    steps,                  \* user operations performed so far
    last                    \* history variable: the operation that led here

vars == <<build, assets, budgets, budgetCategoryList, assetCategoryList,
          customCategoryColors, selectedAssetCategory, selectedBudgetCategory,
          themeColor, isAutoTheme, backup, insight, storage, idb, boot, now, tz,
          nextId, steps, last>>

---------------------------------------------------------------------------
(* String literals of the source.                                          *)

\* the reserved category of the aggregate budget row (U+603B U+8BA1)
TOTAL == "Total"
\* the fallback category of a deleted category (U+5176 U+4ED6)
OTHER_CAT == "Other"
\* the "no filter" entry of the filter bar (U+5168 U+90E8)
ALL == "All"
\* AssetCategory.LIABILITY
LIABILITY == "Liability"
\* AssetCategory.THIRD_PARTY, BANK, WEALTH, FUND, SAVING of src/types.ts
THIRD_PARTY == "ThirdParty"
BANK == "Bank"
WEALTH == "Wealth"
FUND == "Fund"
SAVING == "Saving"
\* AssetCategory.CASH, STOCK, CRYPTO, REAL_ESTATE of the earlier types.ts,
\* the one src/App.tsx and src/components/AddAssetModal.tsx are written for
CASH == "Cash"
STOCK == "Stock"
CRYPTO == "Crypto"
REAL_ESTATE == "RealEstate"
\* budget categories of DEFAULT_BUDGET_CATEGORIES
LIFE == "Life"
INVEST == "Invest"
\* the value of a missing enum member / object key
UNDEFINED == "undefined"

---------------------------------------------------------------------------
(* Bounds of the model.                                                    *)

\* largest amount a budget field may reach through quick adds
MaxSpent == 3000
\* most budget rows the ledger may hold (part_004 can add rows)
MaxBudgets == 5

\* most user operations of one run
MaxSteps == 2

\* amounts a user types into a numeric input
Amounts == {0, 100, 700}

---------------------------------------------------------------------------
(* JavaScript helpers.                                                     *)

\* { ...obj, ...updates }
Merge(obj, updates) ==
    [f \in (DOMAIN obj) \cup (DOMAIN updates) |->
        IF f \in DOMAIN updates THEN updates[f] ELSE obj[f]]

\* the text of an input box: a number, or text that is no number ("" or "abc")
NumText(n) == [num |-> TRUE, val |-> n]
NoNumText == [num |-> FALSE, val |-> 0]
TypedTexts == {NumText(n) : n \in Amounts} \cup {NoNumText}

\* parseFloat: the number, or NaN (num = FALSE)
parseFloat(text) == text
isNaN(x) == ~x.num
\* parseFloat(text) || 0
parseFloatOrZero(text) == IF isNaN(parseFloat(text)) THEN 0 ELSE parseFloat(text).val

\* array.reduce((sum, b) => sum + b[f], 0)
RECURSIVE SumField(_, _)
SumField(seq, f) ==
    IF seq = <<>> THEN 0 ELSE seq[1][f] + SumField(Tail(seq), f)

IsTotalRow(b) == b.category = TOTAL
NotTotalRow(b) == b.category # TOTAL

\* budgets.findIndex(b => b.category === TOTAL), 1-based; 0 when there is none
findTotalIdx(bs) ==
    IF \E i \in 1..Len(bs) : IsTotalRow(bs[i])
    THEN CHOOSE i \in 1..Len(bs) :
            IsTotalRow(bs[i]) /\ \A j \in 1..(i-1) : ~IsTotalRow(bs[j])
    ELSE 0

\* prev.filter((_, i) => i !== index)
RemoveAt(seq, index) ==
    [i \in 1..(Len(seq) - 1) |-> IF i < index THEN seq[i] ELSE seq[i + 1]]

---------------------------------------------------------------------------
(* Budget ledger.                                                          *)

Budget(cat, sub, monthly, spent) ==
    [category |-> cat, subCategory |-> sub,
     monthlyAmount |-> monthly, spentThisMonth |-> spent]

INITIAL_BUDGETS_App ==
    << Budget(TOTAL, UNDEFINED, 8000, 3200),
       Budget(LIFE, "Dining", 3000, 1800),
       Budget(LIFE, "Shopping", 2000, 500),
       Budget(LIFE, "Transport", 500, 120) >>

\* part_004 adds the transaction log to every row
BudgetT(cat, sub, monthly, spent) ==
    Merge(Budget(cat, sub, monthly, spent), [transactions |-> <<>>])

INITIAL_BUDGETS_part_004 ==
    << BudgetT(TOTAL, UNDEFINED, 8000, 3200),
       BudgetT(LIFE, "Dining", 3000, 1800),
       BudgetT(LIFE, "Shopping", 2000, 500) >>

DEFAULT_BUDGET_CATEGORIES == <<LIFE, INVEST, OTHER_CAT>>

\* the recomputation of the Total row from the other rows, as written in
\* handleUpdateBudget and again in handleDeleteBudget
RecomputeTotal(newBudgets) ==
    LET categoriesOnly == SelectSeq(newBudgets, NotTotalRow)
        totalIdx == findTotalIdx(newBudgets)
    IN  IF totalIdx # 0
        THEN [newBudgets EXCEPT ![totalIdx] = Merge(@,
                [monthlyAmount |-> SumField(categoriesOnly, "monthlyAmount"),
                 spentThisMonth |-> SumField(categoriesOnly, "spentThisMonth")])]
        ELSE newBudgets

\* the updater handleUpdateBudget passes to setBudgets
UpdateBudget(prev, index, updates) ==
    LET newBudgets == [prev EXCEPT ![index] = Merge(@, updates)]
    IN  IF newBudgets[index].category # TOTAL
        THEN RecomputeTotal(newBudgets)
        ELSE newBudgets

\* the updater handleDeleteBudget passes to setBudgets (App.tsx)
DeleteBudget_App(prev, index) == RecomputeTotal(RemoveAt(prev, index))

\* the updater of the edit dialog's delete button (part_004)
DeleteBudget_part_004(prev, index) == RemoveAt(prev, index)

---------------------------------------------------------------------------
(* The clock and the date texts.                                           *)
(* The clock `now` counts half days; a day has two of them, and the local  *)
(* zone is tz half days ahead of UTC.  The calendar is abstract: a year    *)
(* has YearLen days and a month/day pair is the ordinal md of the day in   *)
(* its year.  A date text is a record: "ISO" is YYYY-MM-DD, "MD" is MM/DD  *)
(* (no year), "YMD" is the zh-CN long form YYYY/M/D.                       *)

\* days in a year of the abstract calendar
YearLen == 3
\* clock ticks a run may take
MaxTicks == 3
\* the day the application is first opened: the last day of a year
StartDay == 4 * YearLen - 1
\* time zones of the browser, in half days
TZs == {0 - 1, 0, 1}

utcDay == now \div 2
localDay == (now + tz) \div 2

ISODate(day) == [fmt |-> "ISO", y |-> day \div YearLen, md |-> (day % YearLen) + 1]
MDDate(day) == [fmt |-> "MD", y |-> 0, md |-> (day % YearLen) + 1]
YMDDate(day) == [fmt |-> "YMD", y |-> day \div YearLen, md |-> (day % YearLen) + 1]

\* new Date().toISOString().split('T')[0]
todayStr == ISODate(utcDay)
\* new Date().toLocaleDateString('zh-CN', { month: '2-digit', day: '2-digit' })
localeMonthDay == MDDate(localDay)
\* new Date().toLocaleDateString('zh-CN')
localeDate == YMDDate(localDay)

\* parseDate: the time of a date text, in half days since the epoch
parseDate(dateStr) ==
    IF dateStr.fmt = "ISO"
    THEN (dateStr.y * YearLen + dateStr.md - 1) * 2
    ELSE LET year == localDay \div YearLen
         IN  (year * YearLen + dateStr.md - 1) * 2 - tz

---------------------------------------------------------------------------
(* Asset ledger.                                                           *)

\* points of a generated history (the source generates 120)
MockLen == 2
\* days between two generated points
MockStepDays == 3
\* per-step change of the generated random walk
MockDrifts == {0 - 50, 50}

HistoryPoint(date, value) == [date |-> date, value |-> value]

\* generateMockHistory(baseValue): oldest point first, the last point is today
generateMockHistory(baseValue, day, drift) ==
    [k \in 1..MockLen |->
        HistoryPoint(ISODate(day - (MockLen - k) * MockStepDays),
                     baseValue + (MockLen - k) * drift)]

Asset(id, cat, value, lastUpdated, history) ==
    [id |-> id, category |-> cat, value |-> value,
     lastUpdated |-> lastUpdated, history |-> history]

\* the lastUpdated text of the built-in assets, '2024-05-20'
InitialLastUpdated == [fmt |-> "ISO", y |-> 0, md |-> 1]

INITIAL_ASSETS_App(day, drift) ==
    << Asset(1, CASH, 45000, InitialLastUpdated, generateMockHistory(45000, day, drift)),
       Asset(2, STOCK, 120500, InitialLastUpdated, generateMockHistory(120500, day, drift)),
       Asset(3, LIABILITY, 8500, InitialLastUpdated, generateMockHistory(8500, day, drift)),
       Asset(4, SAVING, 12000, InitialLastUpdated, generateMockHistory(12000, day, drift)),
       Asset(5, CRYPTO, 58000, InitialLastUpdated, generateMockHistory(58000, day, drift)) >>

INITIAL_ASSETS_part_004(day, drift) ==
    << Asset(1, THIRD_PARTY, 45000, InitialLastUpdated, generateMockHistory(45000, day, drift)),
       Asset(2, BANK, 120500, InitialLastUpdated, generateMockHistory(120500, day, drift)),
       Asset(3, WEALTH, 58000, InitialLastUpdated, generateMockHistory(58000, day, drift)),
       Asset(4, FUND, 32000, InitialLastUpdated, generateMockHistory(32000, day, drift)),
       Asset(5, LIABILITY, 8500, InitialLastUpdated, generateMockHistory(8500, day, drift)) >>

\* Object.values(AssetCategory), with the enum src/App.tsx is written for
DEFAULT_ASSET_CATEGORIES_App ==
    <<CASH, STOCK, CRYPTO, REAL_ESTATE, FUND, LIABILITY, SAVING, OTHER_CAT>>
\* Object.values(AssetCategory), with the enum of src/types.ts
DEFAULT_ASSET_CATEGORIES_part_004 ==
    <<THIRD_PARTY, BANK, WEALTH, FUND, SAVING, LIABILITY, OTHER_CAT>>

\* a variant of handleUpdateAsset that refreshes lastUpdated only when the
\* value changes
UpdateAssetTouchOnValue(prev, id, updates) ==
    [i \in 1..Len(prev) |->
        LET a == prev[i]
        IN  IF a.id = id
            THEN IF "value" \in DOMAIN updates
                 THEN Merge(Merge(a, updates),
                            [history |-> Append(a.history, HistoryPoint(todayStr, updates.value)),
                             lastUpdated |-> localeDate])
                 ELSE Merge(a, updates)
            ELSE a]

\* a variant of handleUpdateAsset that refreshes lastUpdated of every asset
UpdateAssetTouchAll(prev, id, updates) ==
    [i \in 1..Len(prev) |->
        LET a == prev[i]
        IN  IF a.id = id
            THEN LET newHistory == IF "value" \in DOMAIN updates
                                   THEN Append(a.history, HistoryPoint(todayStr, updates.value))
                                   ELSE a.history
                 IN  Merge(Merge(a, updates), [history |-> newHistory, lastUpdated |-> localeDate])
            ELSE Merge(a, [lastUpdated |-> localeDate])]

\* the updater handleUpdateAsset passes to setAssets
UpdateAsset(prev, id, updates) ==
    [i \in 1..Len(prev) |->
        LET a == prev[i]
        IN  IF a.id = id
            THEN LET newValue == IF "value" \in DOMAIN updates
                                 THEN updates.value ELSE a.value
                     newHistory == IF "value" \in DOMAIN updates
                                   THEN Append(a.history, HistoryPoint(todayStr, newValue))
                                   ELSE a.history
                 IN  Merge(Merge(a, updates),
                           [history |-> newHistory, lastUpdated |-> localeDate])
            ELSE a]

\* stats
stats(as) ==
    LET positive == SelectSeq(as, LAMBDA a : a.category # LIABILITY)
        negative == SelectSeq(as, LAMBDA a : a.category = LIABILITY)
        totalAssets == SumField(positive, "value")
        totalLiabilities == SumField(negative, "value")
    IN  [totalAssets |-> totalAssets, totalLiabilities |-> totalLiabilities,
         netWorth |-> totalAssets - totalLiabilities]

---------------------------------------------------------------------------
(* The net-worth trend (globalHistory).                                    *)

\* Set.add on an insertion-ordered Set
SetAdd(seq, x) ==
    IF \E i \in 1..Len(seq) : seq[i] = x THEN seq ELSE Append(seq, x)

RECURSIVE AddHistoryDates(_, _)
AddHistoryDates(acc, hist) ==
    IF hist = <<>> THEN acc
    ELSE AddHistoryDates(SetAdd(acc, hist[1].date), Tail(hist))

RECURSIVE CollectDates(_, _)
CollectDates(acc, as) ==
    IF as = <<>> THEN acc
    ELSE CollectDates(AddHistoryDates(acc, as[1].history), Tail(as))

\* 1. collect all unique dates, in the order the Set first sees them
allDates(as) == CollectDates(<<>>, as)

\* Array.prototype.sort is stable: an element goes after the elements that
\* compare equal to it and were before it
RECURSIVE InsertSorted(_, _)
InsertSorted(sorted, x) ==
    IF sorted = <<>> THEN <<x>>
    ELSE IF parseDate(x) - parseDate(sorted[1]) < 0
         THEN <<x>> \o sorted
         ELSE <<sorted[1]>> \o InsertSorted(Tail(sorted), x)

RECURSIVE SortByParseDate(_)
SortByParseDate(seq) ==
    IF seq = <<>> THEN <<>>
    ELSE InsertSorted(SortByParseDate(SubSeq(seq, 1, Len(seq) - 1)), seq[Len(seq)])

\* a variant of sortedDates that leaves the dates in the order collected
sortedDatesUnsorted(as) == allDates(as)

\* 2. sort dates chronologically
sortedDates(as) == SortByParseDate(allDates(as))

\* asset.history.find(h => h.date === date): <<h>>, or <<>> for undefined
findExact(hist, date) ==
    IF \E i \in 1..Len(hist) : hist[i].date = date
    THEN LET i == CHOOSE k \in 1..Len(hist) :
                    hist[k].date = date /\ \A j \in 1..(k-1) : hist[j].date # date
         IN  <<hist[i]>>
    ELSE <<>>

\* a variant of the scan that relies on the history being stored in date
\* order: the last stored point at or before targetTime wins
RECURSIVE ScanClosestSorted(_, _, _, _)
ScanClosestSorted(hist, targetTime, maxTime, closest) ==
    IF hist = <<>> THEN closest
    ELSE LET h == hist[1]
             hTime == parseDate(h.date)
         IN  IF hTime <= targetTime
             THEN ScanClosestSorted(Tail(hist), targetTime, hTime, <<h>>)
             ELSE ScanClosestSorted(Tail(hist), targetTime, maxTime, closest)

\* the scan for the latest point at or before targetTime
RECURSIVE ScanClosest(_, _, _, _)
ScanClosest(hist, targetTime, maxTime, closest) ==
    IF hist = <<>> THEN closest
    ELSE LET h == hist[1]
             hTime == parseDate(h.date)
         IN  IF hTime <= targetTime /\ hTime > maxTime
             THEN ScanClosest(Tail(hist), targetTime, hTime, <<h>>)
             ELSE ScanClosest(Tail(hist), targetTime, maxTime, closest)

\* val: the contribution of one asset at one date of the trend
AssetValueAt(asset, date) ==
    LET exactMatch == findExact(asset.history, date)
    IN  IF exactMatch # <<>> THEN exactMatch[1].value
        ELSE LET closest == ScanClosest(asset.history, parseDate(date), 0 - 1, <<>>)
             IN  IF closest # <<>> THEN closest[1].value ELSE 0

\* a variant of the total that adds the liabilities like any other asset
RECURSIVE TrendTotalUnsigned(_, _)
TrendTotalUnsigned(as, date) ==
    IF as = <<>> THEN 0
    ELSE TrendTotalUnsigned(SubSeq(as, 1, Len(as) - 1), date)
            + AssetValueAt(as[Len(as)], date)

\* total: assets.forEach adds val, or subtracts it for a liability
RECURSIVE TrendTotal(_, _)
TrendTotal(as, date) ==
    IF as = <<>> THEN 0
    ELSE LET rest == TrendTotal(SubSeq(as, 1, Len(as) - 1), date)
             asset == as[Len(as)]
             val == AssetValueAt(asset, date)
         IN  IF asset.category = LIABILITY THEN rest - val ELSE rest + val

globalHistory(as) ==
    IF Len(as) = 0 THEN <<>>
    ELSE LET dates == sortedDates(as)
         IN  [i \in 1..Len(dates) |->
                [date |-> dates[i], value |-> TrendTotal(as, dates[i])]]

---------------------------------------------------------------------------
(* Category registries and the color map.                                  *)

\* the answers of prompt(): null (cancelled), the empty text, a blank text,
\* or a name
NULL == "<null>"
EMPTY == ""
BLANK == " "
NEWCAT == "NewCat"
PromptInputs == {NULL, EMPTY, BLANK, NEWCAT, TOTAL, OTHER_CAT, INVEST, BANK}

\* String.prototype.trim on the prompt answers
trim(text) == IF text = BLANK THEN EMPTY ELSE text

THEME_COLORS ==
    << "#ef4444", "#f43f5e", "#3b82f6", "#10b981", "#8b5cf6", "#f59e0b",
       "#06b6d4", "#6366f1", "#d946ef", "#14b8a6", "#0f172a" >>
\* how many of the theme colors the model lets a run pick from
ColorChoices == 2

\* CategoryColors of the earlier types.ts
CategoryColors_App ==
    [c \in {CASH, STOCK, CRYPTO, REAL_ESTATE, FUND, LIABILITY, SAVING, OTHER_CAT} |->
        CASE c = CASH -> "#3b82f6"
          [] c = STOCK -> "#6366f1"
          [] c = CRYPTO -> "#f59e0b"
          [] c = REAL_ESTATE -> "#10b981"
          [] c = FUND -> "#a855f7"
          [] c = LIABILITY -> "#ef4444"
          [] c = SAVING -> "#ec4899"
          [] c = OTHER_CAT -> "#64748b"]

\* CategoryColors of src/types.ts
CategoryColors_part_004 ==
    [c \in {THIRD_PARTY, BANK, WEALTH, FUND, SAVING, LIABILITY, OTHER_CAT} |->
        CASE c = THIRD_PARTY -> "#06b6d4"
          [] c = BANK -> "#3b82f6"
          [] c = WEALTH -> "#8b5cf6"
          [] c = FUND -> "#f59e0b"
          [] c = SAVING -> "#10b981"
          [] c = LIABILITY -> "#ef4444"
          [] c = OTHER_CAT -> "#64748b"]

includes(list, x) == \E i \in 1..Len(list) : list[i] = x
Elems(list) == {list[i] : i \in 1..Len(list)}

\* list.map(c => c === oldName ? newName : c)
RenameInList(list, oldName, newName) ==
    [i \in 1..Len(list) |-> IF list[i] = oldName THEN newName ELSE list[i]]

\* records.map(r => r.category === from ? { ...r, category: to } : r)
Recategorize(records, from, to) ==
    [i \in 1..Len(records) |->
        IF records[i].category = from
        THEN Merge(records[i], [category |-> to])
        ELSE records[i]]

\* a variant of RenameColors that keeps the entry of the old name
RenameColorsKeepOld(prev, oldName, newName, theme) ==
    [k \in (DOMAIN prev) \cup {newName} |->
        IF k = newName
        THEN (IF oldName \in DOMAIN prev THEN prev[oldName] ELSE theme)
        ELSE prev[k]]

\* the updater handleRenameCategoryAction passes to setCustomCategoryColors
RenameColors(prev, oldName, newName, theme) ==
    [k \in ((DOMAIN prev) \cup {newName}) \ {oldName} |->
        IF k = newName
        THEN (IF oldName \in DOMAIN prev THEN prev[oldName] ELSE theme)
        ELSE prev[k]]

\* prev => ({ ...prev, [name]: color })
SetColor(prev, name, color) ==
    [k \in (DOMAIN prev) \cup {name} |-> IF k = name THEN color ELSE prev[k]]

\* the name a rename takes effect with, or NULL when the handler returns
\* without a change (src/App.tsx)
RenameTarget_App(oldName, input, list) ==
    IF input # NULL /\ input # EMPTY /\ input # oldName THEN input ELSE NULL

\* the same for part_004, which trims and refuses a name of the registry
RenameTarget_part_004(oldName, input, list) ==
    IF input # NULL /\ input # EMPTY
    THEN LET trimmed == trim(input)
         IN  IF trimmed = EMPTY \/ trimmed = oldName THEN NULL
             ELSE IF includes(list, trimmed) THEN NULL
             ELSE trimmed
    ELSE NULL

\* the name an added category is stored with, or NULL when nothing is added
AddTarget_App(input, list) ==
    IF input # NULL /\ input # EMPTY /\ ~includes(list, input) THEN input ELSE NULL

AddTarget_part_004(input, list) ==
    IF input # NULL /\ input # EMPTY
    THEN LET trimmed == trim(input)
         IN  IF trimmed = EMPTY THEN NULL
             ELSE IF includes(list, trimmed) THEN NULL
             ELSE trimmed
    ELSE NULL

\* list.filter(c => c !== name)
DeleteFromList(list, name) == SelectSeq(list, LAMBDA c : c # name)

\* a variant of DeletedFilter that always resets the filter
DeletedFilterAlways(selected, name) == ALL

\* if (selected === name) setSelected(ALL)
DeletedFilter(selected, name) == IF selected = name THEN ALL ELSE selected

\* if (selected === oldName) setSelected(newName)
RenamedFilter(selected, oldName, newName) ==
    IF selected = oldName THEN newName ELSE selected

---------------------------------------------------------------------------
(* Initial state.                                                          *)

Builds == {"App", "part_004"}

Snapshot ==
    [assets |-> assets, budgets |-> budgets,
     budgetCategoryList |-> budgetCategoryList,
     assetCategoryList |-> assetCategoryList,
     customCategoryColors |-> customCategoryColors,
     selectedAssetCategory |-> selectedAssetCategory,
     selectedBudgetCategory |-> selectedBudgetCategory,
     themeColor |-> themeColor, isAutoTheme |-> isAutoTheme]

NoArgs == [none |-> TRUE]

\* nothing has been exported yet
NoBackup == [kind |-> "none", data |-> NoArgs]

\* getAIInsights has not been called yet
NoInsight == [pc |-> "idle", prompt |-> <<>>, cause |-> "none", value |-> NoArgs]

\* JSON.stringify leaves out the keys of an object whose value is undefined
\* (in the budget rows UNDEFINED stands for a key that is absent already)
JsonAsset(a) ==
    IF "notes" \in DOMAIN a /\ a.notes = UNDEFINED
    THEN [f \in (DOMAIN a) \ {"notes"} |-> a[f]]
    ELSE a
JsonAssets(as) == [i \in 1..Len(as) |-> JsonAsset(as[i])]

\* the keys loadAllData reads, in the order of its awaits
DBKeys ==
    <<"assets_data", "budget_data", "asset_category_list", "budget_category_list",
      "category_colors_map", "app_theme", "small_card_mode">>

\* store.get of a key that was never put resolves to undefined
NoDB == [n \in 1..Len(DBKeys) |-> [kind |-> "absent", data |-> NoArgs]]

\* the builds without IndexedDB never start loadAllData
NoBoot == [pc |-> "none"]

\* the keys of localStorage the application writes
StorageKeys ==
    {"assets_data", "budget_data", "budget_category_list", "asset_category_list",
     "category_colors_map", "app_theme", "auto_theme"}

\* localStorage.getItem of a key that was never set
NoItem == [kind |-> "absent", data |-> NoArgs]

\* JSON.stringify of each collection, and the two theme strings
StoredState ==
    [assets_data |-> [kind |-> "json", data |-> JsonAssets(assets)],
     budget_data |-> [kind |-> "json", data |-> budgets],
     budget_category_list |-> [kind |-> "json", data |-> budgetCategoryList],
     asset_category_list |-> [kind |-> "json", data |-> assetCategoryList],
     category_colors_map |-> [kind |-> "json", data |-> customCategoryColors],
     app_theme |-> [kind |-> "text", data |-> themeColor],
     auto_theme |-> [kind |-> "text", data |-> isAutoTheme]]

\* a variant of the effect of the color map that stores nothing
ColorsEffectMissing(item, changed, stored) == item

\* useEffect(() => localStorage.setItem(key, ...), [dep]) after a render
Effect(item, changed, stored) == IF changed THEN stored ELSE item
ColorsEffect(item, changed, stored) == Effect(item, changed, stored)

\* the persistence effects that run after the render that follows a handler
PersistenceEffects ==
    LET themeChanged == themeColor' # themeColor \/ isAutoTheme' # isAutoTheme
    IN  storage' =
          [assets_data |->
              Effect(storage.assets_data, assets' # assets,
                     [kind |-> "json", data |-> JsonAssets(assets')]),
           budget_data |->
              Effect(storage.budget_data, budgets' # budgets,
                     [kind |-> "json", data |-> budgets']),
           budget_category_list |->
              Effect(storage.budget_category_list,
                     budgetCategoryList' # budgetCategoryList,
                     [kind |-> "json", data |-> budgetCategoryList']),
           asset_category_list |->
              Effect(storage.asset_category_list,
                     assetCategoryList' # assetCategoryList,
                     [kind |-> "json", data |-> assetCategoryList']),
           category_colors_map |->
              ColorsEffect(storage.category_colors_map,
                           customCategoryColors' # customCategoryColors,
                           [kind |-> "json", data |-> customCategoryColors']),
           app_theme |->
              Effect(storage.app_theme, themeChanged,
                     [kind |-> "text", data |-> themeColor']),
           auto_theme |->
              Effect(storage.auto_theme, themeChanged,
                     [kind |-> "text", data |-> isAutoTheme'])]

\* the state after the first render with an empty localStorage
InitWith(b, zone, drift) ==
    /\ build = b
    /\ tz = zone
    /\ now = 2 * StartDay
    /\ assets = IF b = "App" THEN INITIAL_ASSETS_App(StartDay, drift)
                             ELSE INITIAL_ASSETS_part_004(StartDay, drift)
    /\ budgets = IF b = "App" THEN INITIAL_BUDGETS_App ELSE INITIAL_BUDGETS_part_004
    /\ budgetCategoryList = DEFAULT_BUDGET_CATEGORIES
    /\ assetCategoryList = IF b = "App" THEN DEFAULT_ASSET_CATEGORIES_App
                                         ELSE DEFAULT_ASSET_CATEGORIES_part_004
    /\ customCategoryColors = IF b = "App" THEN CategoryColors_App
                                            ELSE CategoryColors_part_004
    /\ selectedAssetCategory = ALL
    /\ selectedBudgetCategory = ALL
    /\ themeColor = "#ef4444"
    /\ isAutoTheme = FALSE
    /\ backup = NoBackup
    /\ insight = NoInsight
    /\ idb = <<>>
    /\ boot = NoBoot
    /\ storage = StoredState
    /\ nextId = 6
    /\ steps = 0
    /\ last = [op |-> "init", args |-> NoArgs, pre |-> NoArgs]

\* saved ? JSON.parse(saved) : fallback
getItemOr(item, fallback) == IF item.kind = "absent" THEN fallback ELSE item.data

\* the useState initializers: what the first render makes of a localStorage
Hydrated(store, b, day, drift) ==
    [assets |-> getItemOr(store.assets_data,
                          IF b = "App" THEN INITIAL_ASSETS_App(day, drift)
                                       ELSE INITIAL_ASSETS_part_004(day, drift)),
     budgets |-> getItemOr(store.budget_data,
                           IF b = "App" THEN INITIAL_BUDGETS_App
                                        ELSE INITIAL_BUDGETS_part_004),
     budgetCategoryList |-> getItemOr(store.budget_category_list, DEFAULT_BUDGET_CATEGORIES),
     assetCategoryList |-> getItemOr(store.asset_category_list,
                                     IF b = "App" THEN DEFAULT_ASSET_CATEGORIES_App
                                                  ELSE DEFAULT_ASSET_CATEGORIES_part_004),
     customCategoryColors |-> getItemOr(store.category_colors_map,
                                        IF b = "App" THEN CategoryColors_App
                                                     ELSE CategoryColors_part_004),
     themeColor |-> getItemOr(store.app_theme, "#ef4444"),
     isAutoTheme |-> getItemOr(store.auto_theme, FALSE)]

\* the first render with the browser in UTC and one outcome of the random walk
Init == \E b \in Builds : InitWith(b, 0, 50)

\* the first render in any timezone, with any outcome of the random walk
InitAnywhere ==
    \E b \in Builds, zone \in TZs, drift \in MockDrifts : InitWith(b, zone, drift)

\* a localStorage an earlier session has left: the ledgers as handleClearData
\* leaves them, a category added to each registry and to the color map, the
\* second theme color; the keys of the set absent are missing
EarlierStore(b, absent) ==
    LET h == Hydrated([k \in StorageKeys |-> NoItem], b, StartDay - 1, 50)
        store ==
          [assets_data |->
              [kind |-> "json",
               data |-> [i \in 1..Len(h.assets) |->
                           Asset(h.assets[i].id, h.assets[i].category, 0,
                                 YMDDate(StartDay - 1),
                                 <<HistoryPoint(MDDate(StartDay - 1), 0)>>)]],
           budget_data |->
              [kind |-> "json",
               data |-> [i \in 1..Len(h.budgets) |->
                           [h.budgets[i] EXCEPT !.spentThisMonth = 0]]],
           budget_category_list |->
              [kind |-> "json", data |-> Append(h.budgetCategoryList, NEWCAT)],
           asset_category_list |->
              [kind |-> "json", data |-> Append(h.assetCategoryList, NEWCAT)],
           category_colors_map |->
              [kind |-> "json",
               data |-> Merge(h.customCategoryColors,
                              [c \in {NEWCAT} |-> THEME_COLORS[1]])],
           app_theme |-> [kind |-> "text", data |-> THEME_COLORS[2]],
           auto_theme |-> [kind |-> "text", data |-> FALSE]]
    IN  [k \in DOMAIN store |-> IF k \in absent THEN NoItem ELSE store[k]]

\* the first render over the localStorage an earlier session has left
InitPersist ==
    \E b \in Builds, absent \in SUBSET (StorageKeys) :
        LET store == EarlierStore(b, absent)
            h == Hydrated(store, b, StartDay, 50)
        IN  /\ build = b
            /\ tz = 0
            /\ now = 2 * StartDay
            /\ assets = h.assets
            /\ budgets = h.budgets
            /\ budgetCategoryList = h.budgetCategoryList
            /\ assetCategoryList = h.assetCategoryList
            /\ customCategoryColors = h.customCategoryColors
            /\ selectedAssetCategory = ALL
            /\ selectedBudgetCategory = ALL
            /\ themeColor = h.themeColor
            /\ isAutoTheme = h.isAutoTheme
            /\ backup = NoBackup
            /\ insight = NoInsight
            /\ idb = <<>>
            /\ boot = NoBoot
            /\ storage = StoredState
            /\ nextId = 6
            /\ steps = 0
            /\ last = [op |-> "mount", args |-> [store |-> store], pre |-> NoArgs]

\* a run is cut after MaxSteps operations
CanStep == steps < MaxSteps

\* every action records itself in the history variable
Record(op, args) ==
    /\ steps' = steps + 1
    /\ last' = [op |-> op, args |-> args, pre |-> Snapshot]

catVars == <<budgetCategoryList, assetCategoryList, customCategoryColors,
             selectedAssetCategory, selectedBudgetCategory, themeColor>>
\* what the handlers of the ledgers and of the registries never write
envVars == <<build, now, tz, isAutoTheme, backup, insight, idb, boot>>

---------------------------------------------------------------------------
(* Budget operations.                                                      *)

\* the rows shown as cards (filteredBudgets leaves the Total row out); the
\* category filter is not applied here, the user can always lift it
CardRows == {i \in 1..Len(budgets) : budgets[i].category # TOTAL}

Transaction(id, amount, note) ==
    [id |-> id, amount |-> amount, date |-> localeMonthDay, note |-> note]

\* handleUpdateBudget, called by BudgetCard.handleSaveValue
BudgetCardSaveValue(index, text) ==
    /\ CanStep
    /\ index \in CardRows
    /\ budgets' = IF ~isNaN(parseFloat(text))
                  THEN UpdateBudget(budgets, index, [spentThisMonth |-> parseFloat(text).val])
                  ELSE budgets
    /\ Record("handleUpdateBudget", [index |-> index, field |-> "spentThisMonth", text |-> text,
               applied |-> ~isNaN(parseFloat(text))])
    /\ UNCHANGED <<assets, catVars, envVars, nextId>>
    /\ PersistenceEffects

\* handleUpdateBudget, called by the category select of the edit dialog
EditBudgetCategory(index, cat) ==
    /\ CanStep
    /\ index \in CardRows
    /\ includes(budgetCategoryList, cat)
    /\ budgets' = UpdateBudget(budgets, index, [category |-> cat])
    /\ Record("handleUpdateBudget", [index |-> index, field |-> "category", cat |-> cat, applied |-> TRUE])
    /\ UNCHANGED <<assets, catVars, envVars, nextId>>
    /\ PersistenceEffects

\* handleUpdateBudget, called by the name input of the edit dialog
EditBudgetSubCategory(index, name) ==
    /\ CanStep
    /\ index \in CardRows
    /\ budgets' = UpdateBudget(budgets, index, [subCategory |-> name])
    /\ Record("handleUpdateBudget", [index |-> index, field |-> "subCategory", name |-> name, applied |-> TRUE])
    /\ UNCHANGED <<assets, catVars, envVars, nextId>>
    /\ PersistenceEffects

\* handleUpdateBudget, called by the monthly-limit input of the edit dialog
EditBudgetMonthlyAmount(index, text) ==
    /\ CanStep
    /\ index \in CardRows
    /\ budgets' = UpdateBudget(budgets, index, [monthlyAmount |-> parseFloatOrZero(text)])
    /\ Record("handleUpdateBudget", [index |-> index, field |-> "monthlyAmount", text |-> text,
               applied |-> TRUE])
    /\ UNCHANGED <<assets, catVars, envVars, nextId>>
    /\ PersistenceEffects

\* handleSaveTotalLimit (App.tsx); the onBlur of the total limit input (part_004)
handleSaveTotalLimit(text) ==
    /\ CanStep
    /\ LET totalIdx == findTotalIdx(budgets)
       IN  budgets' =
             IF build = "App"
             THEN IF ~isNaN(parseFloat(text)) /\ totalIdx # 0
                  THEN UpdateBudget(budgets, totalIdx, [monthlyAmount |-> parseFloat(text).val])
                  ELSE budgets
             ELSE IF totalIdx # 0
                  THEN UpdateBudget(budgets, totalIdx, [monthlyAmount |-> parseFloatOrZero(text)])
                  ELSE budgets   \* newBudgets[-1] sets no element of the array
    /\ Record("handleSaveTotalLimit", [text |-> text])
    /\ UNCHANGED <<assets, catVars, envVars, nextId>>
    /\ PersistenceEffects

\* the updates handleQuickAdd hands to handleUpdateBudget
QuickAddUpdates(b, amount, id) ==
    IF build = "App"
    THEN [spentThisMonth |-> b.spentThisMonth + amount]
    ELSE [spentThisMonth |-> b.spentThisMonth + amount,
          transactions |-> <<Transaction(id, amount, "quick")>> \o b.transactions]

handleQuickAdd(index, text) ==
    /\ CanStep
    /\ index \in CardRows
    /\ budgets[index].spentThisMonth + text.val <= MaxSpent
    /\ budgets' = IF ~isNaN(parseFloat(text))
                  THEN UpdateBudget(budgets, index,
                          QuickAddUpdates(budgets[index], parseFloat(text).val, nextId))
                  ELSE budgets
    /\ nextId' = IF ~isNaN(parseFloat(text)) /\ build # "App" THEN nextId + 1 ELSE nextId
    /\ Record("handleQuickAdd",
              [index |-> index, text |-> text, applied |-> ~isNaN(parseFloat(text))])
    /\ UNCHANGED <<assets, catVars, envVars>>
    /\ PersistenceEffects

\* handleQuickAdd called again before the view has re-rendered: the handler
\* still is the closure of the render before the first call, so it reads
\* quickAddIndex, quickAmount and budgets[quickAddIndex] as they were then;
\* the updater of handleUpdateBudget gets the current state
handleQuickAddBeforeRender ==
    /\ CanStep
    /\ last.op = "handleQuickAdd"
    /\ last.args.applied
    /\ LET index == last.args.index
           text == last.args.text
       IN  /\ budgets[index].spentThisMonth + text.val <= MaxSpent
           /\ budgets' = UpdateBudget(budgets, index,
                             QuickAddUpdates(last.pre.budgets[index],
                                             parseFloat(text).val, nextId))
           /\ Record("handleQuickAdd",
                     [index |-> index, text |-> text, applied |-> TRUE, stale |-> TRUE])
    /\ nextId' = IF build # "App" THEN nextId + 1 ELSE nextId
    /\ UNCHANGED <<assets, catVars, envVars>>
    /\ PersistenceEffects

\* handleManualAddTransaction (part_004)
handleManualAddTransaction(index, text) ==
    /\ CanStep
    /\ build = "part_004"
    /\ index \in CardRows
    /\ budgets[index].spentThisMonth + text.val <= MaxSpent
    /\ LET amount == parseFloat(text)
           ok == ~isNaN(amount) /\ amount.val # 0
       IN  /\ budgets' = IF ok
                         THEN UpdateBudget(budgets, index,
                                [spentThisMonth |-> budgets[index].spentThisMonth + amount.val,
                                 transactions |-> <<Transaction(nextId, amount.val, "manual")>>
                                                    \o budgets[index].transactions])
                         ELSE budgets
           /\ nextId' = IF ok THEN nextId + 1 ELSE nextId
    /\ Record("handleManualAddTransaction",
              [index |-> index, text |-> text,
               applied |-> ~isNaN(parseFloat(text)) /\ parseFloat(text).val # 0])
    /\ UNCHANGED <<assets, catVars, envVars>>
    /\ PersistenceEffects

\* handleDeleteBudget (App.tsx): the delete button of the edit dialog
handleDeleteBudget(index, confirmed) ==
    /\ CanStep
    /\ build = "App"
    /\ index \in CardRows
    /\ budgets' = IF confirmed THEN DeleteBudget_App(budgets, index) ELSE budgets
    /\ Record("handleDeleteBudget", [index |-> index, confirmed |-> confirmed])
    /\ UNCHANGED <<assets, catVars, envVars, nextId>>
    /\ PersistenceEffects

\* the delete button of the edit dialog (part_004)
DeleteBudgetButton(index) ==
    /\ CanStep
    /\ build = "part_004"
    /\ index \in CardRows
    /\ budgets' = DeleteBudget_part_004(budgets, index)
    /\ Record("handleDeleteBudget", [index |-> index, confirmed |-> TRUE])
    /\ UNCHANGED <<assets, catVars, envVars, nextId>>
    /\ PersistenceEffects

\* the add button of the budget tab (part_004)
AddBudgetRow ==
    /\ CanStep
    /\ build = "part_004"
    /\ Len(budgets) < MaxBudgets
    /\ LET cat == IF budgetCategoryList # <<>> /\ budgetCategoryList[1] # EMPTY
                  THEN budgetCategoryList[1] ELSE LIFE
       IN  budgets' = Append(budgets, BudgetT(cat, "NewItem", 0, 0))
    /\ Record("AddBudgetRow", NoArgs)
    /\ UNCHANGED <<assets, catVars, envVars, nextId>>
    /\ PersistenceEffects

\* handleClearData (App.tsx)
ClearedAssets_App(as) ==
    [i \in 1..Len(as) |->
        Merge(as[i], [value |-> 0,
                      history |-> <<HistoryPoint(localeMonthDay, 0)>>,
                      lastUpdated |-> localeDate])]

\* handleClearDataKeepTemplate (part_004)
ClearedAssets_part_004(as) ==
    [i \in 1..Len(as) |->
        Merge(as[i], [value |-> 0, history |-> <<>>, lastUpdated |-> localeDate])]

ClearedBudgets_App(bs) ==
    [i \in 1..Len(bs) |-> Merge(bs[i], [spentThisMonth |-> 0])]

ClearedBudgets_part_004(bs) ==
    [i \in 1..Len(bs) |-> Merge(bs[i], [spentThisMonth |-> 0, transactions |-> <<>>])]

handleClearData(confirmed) ==
    /\ CanStep
    /\ assets' = IF ~confirmed THEN assets
                 ELSE IF build = "App" THEN ClearedAssets_App(assets)
                 ELSE ClearedAssets_part_004(assets)
    /\ budgets' = IF ~confirmed THEN budgets
                  ELSE IF build = "App" THEN ClearedBudgets_App(budgets)
                  ELSE ClearedBudgets_part_004(budgets)
    /\ Record("handleClearData", [confirmed |-> confirmed])
    /\ UNCHANGED <<catVars, envVars, nextId>>
    /\ PersistenceEffects

---------------------------------------------------------------------------
(* Category operations.                                                    *)

Domains == {"asset", "budget"}

RenameTarget(oldName, input, list) ==
    IF build = "App" THEN RenameTarget_App(oldName, input, list)
                     ELSE RenameTarget_part_004(oldName, input, list)

AddTarget(input, list) ==
    IF build = "App" THEN AddTarget_App(input, list)
                     ELSE AddTarget_part_004(input, list)

\* handleRenameCategoryAction(oldName, type); input is the answer of prompt()
handleRenameCategoryAction(oldName, input, type) ==
    LET list == IF type = "budget" THEN budgetCategoryList ELSE assetCategoryList
        newName == RenameTarget(oldName, input, list)
    IN  /\ CanStep
        /\ includes(list, oldName)
        /\ IF newName = NULL
           THEN UNCHANGED <<assets, budgets, catVars>>
           ELSE /\ IF type = "budget"
                   THEN /\ budgetCategoryList' = RenameInList(budgetCategoryList, oldName, newName)
                        /\ budgets' = Recategorize(budgets, oldName, newName)
                        /\ selectedBudgetCategory' =
                              RenamedFilter(selectedBudgetCategory, oldName, newName)
                        /\ UNCHANGED <<assetCategoryList, assets, selectedAssetCategory>>
                   ELSE /\ assetCategoryList' = RenameInList(assetCategoryList, oldName, newName)
                        /\ assets' = Recategorize(assets, oldName, newName)
                        /\ selectedAssetCategory' =
                              RenamedFilter(selectedAssetCategory, oldName, newName)
                        /\ UNCHANGED <<budgetCategoryList, budgets, selectedBudgetCategory>>
                /\ customCategoryColors' =
                      RenameColors(customCategoryColors, oldName, newName, themeColor)
                /\ UNCHANGED themeColor
        /\ Record("handleRenameCategoryAction",
                  [oldName |-> oldName, input |-> input, type |-> type, newName |-> newName])
        /\ UNCHANGED <<envVars, nextId>>
        /\ PersistenceEffects

\* handleDeleteCategoryAction(name, type); confirmed is the answer of confirm()
handleDeleteCategoryAction(name, type, confirmed) ==
    LET list == IF type = "budget" THEN budgetCategoryList ELSE assetCategoryList
    IN  /\ CanStep
        /\ includes(list, name)
        /\ IF ~confirmed
           THEN UNCHANGED <<assets, budgets, catVars>>
           ELSE IF type = "budget"
           THEN /\ budgetCategoryList' = DeleteFromList(budgetCategoryList, name)
                /\ budgets' = Recategorize(budgets, name, OTHER_CAT)
                /\ selectedBudgetCategory' = DeletedFilter(selectedBudgetCategory, name)
                /\ UNCHANGED <<assetCategoryList, assets, selectedAssetCategory,
                               customCategoryColors, themeColor>>
           ELSE /\ assetCategoryList' = DeleteFromList(assetCategoryList, name)
                /\ assets' = Recategorize(assets, name, OTHER_CAT)
                /\ selectedAssetCategory' = DeletedFilter(selectedAssetCategory, name)
                /\ UNCHANGED <<budgetCategoryList, budgets, selectedBudgetCategory,
                               customCategoryColors, themeColor>>
        /\ Record("handleDeleteCategoryAction",
                  [name |-> name, type |-> type, confirmed |-> confirmed])
        /\ UNCHANGED <<envVars, nextId>>
        /\ PersistenceEffects

\* handleAddBudgetCategory / handleAddAssetCategory; colorIdx is the random index
handleAddCategory(input, type, colorIdx) ==
    LET list == IF type = "budget" THEN budgetCategoryList ELSE assetCategoryList
        newCat == AddTarget(input, list)
    IN  /\ CanStep
        /\ IF newCat = NULL
           THEN UNCHANGED <<budgetCategoryList, assetCategoryList, customCategoryColors>>
           ELSE /\ IF type = "budget"
                   THEN /\ budgetCategoryList' = Append(budgetCategoryList, newCat)
                        /\ UNCHANGED assetCategoryList
                   ELSE /\ assetCategoryList' = Append(assetCategoryList, newCat)
                        /\ UNCHANGED budgetCategoryList
                /\ customCategoryColors' =
                      SetColor(customCategoryColors, newCat, THEME_COLORS[colorIdx])
        /\ Record("handleAddCategory",
                  [input |-> input, type |-> type, newCat |-> newCat])
        /\ UNCHANGED <<assets, budgets, selectedAssetCategory, selectedBudgetCategory,
                       themeColor, envVars, nextId>>
        /\ PersistenceEffects

\* FilterBar onSelect
SelectCategory(cat, type) ==
    /\ CanStep
    /\ IF type = "budget"
       THEN /\ cat \in {ALL} \cup Elems(budgetCategoryList)
            /\ cat # selectedBudgetCategory
            /\ selectedBudgetCategory' = cat
            /\ UNCHANGED selectedAssetCategory
       ELSE /\ cat \in {ALL} \cup Elems(assetCategoryList)
            /\ cat # selectedAssetCategory
            /\ selectedAssetCategory' = cat
            /\ UNCHANGED selectedBudgetCategory
    /\ Record("SelectCategory", [cat |-> cat, type |-> type])
    /\ UNCHANGED <<assets, budgets, budgetCategoryList, assetCategoryList,
                   customCategoryColors, themeColor, envVars, nextId>>
    /\ PersistenceEffects

\* the theme color buttons of the settings tab
SetThemeColor(colorIdx) ==
    /\ CanStep
    /\ THEME_COLORS[colorIdx] # themeColor
    /\ themeColor' = THEME_COLORS[colorIdx]
    /\ isAutoTheme' = FALSE
    /\ Record("SetThemeColor", [colorIdx |-> colorIdx])
    /\ UNCHANGED <<assets, budgets, budgetCategoryList, assetCategoryList,
                   customCategoryColors, selectedAssetCategory, selectedBudgetCategory,
                   build, now, tz, backup, insight, idb, boot, nextId>>
    /\ PersistenceEffects

---------------------------------------------------------------------------
(* Asset operations.                                                       *)

\* most assets of the ledger
MaxAssets == 6
\* most points of one asset's history
MaxHistory == 3

AssetIds == {assets[i].id : i \in 1..Len(assets)}

\* the categories the select of AddAssetModal offers; with an empty registry
\* the form keeps the first member of the enum
CategoryOptions ==
    IF assetCategoryList = <<>>
    THEN {IF build = "App" THEN CASH ELSE THIRD_PARTY}
    ELSE Elems(assetCategoryList)

\* onAdd of the add form: AddAssetModal.handleSubmit with a name and an amount
AddAsset(cat, value) ==
    /\ CanStep
    /\ Len(assets) < MaxAssets
    /\ cat \in CategoryOptions
    /\ assets' = Append(assets,
                    Asset(nextId, cat, value, localeDate,
                          <<HistoryPoint(todayStr, value)>>))
    /\ nextId' = nextId + 1
    /\ Record("AddAsset", [id |-> nextId, cat |-> cat, value |-> value])
    /\ UNCHANGED <<budgets, catVars, envVars>>
    /\ PersistenceEffects

\* AddAssetModal.handleSubmit when the name box or the amount box is empty
\* (a number input holds the empty text when what was typed is no number):
\* it returns before onAdd
handleSubmitIncomplete(name, text) ==
    /\ CanStep
    /\ name = EMPTY \/ isNaN(parseFloat(text))
    /\ Record("handleSubmit", [name |-> name, text |-> text, applied |-> FALSE])
    /\ UNCHANGED <<assets, budgets, catVars, envVars, nextId>>
    /\ PersistenceEffects

\* handleUpdateAsset, called by AssetCard.handleSaveValue
AssetCardSaveValue(id, text) ==
    /\ CanStep
    /\ id \in AssetIds
    /\ \A i \in 1..Len(assets) : assets[i].id = id => Len(assets[i].history) < MaxHistory
    /\ assets' = IF ~isNaN(parseFloat(text))
                 THEN UpdateAsset(assets, id, [value |-> parseFloat(text).val])
                 ELSE assets
    /\ Record("handleUpdateAsset",
              [id |-> id, text |-> text, via |-> "card",
               applied |-> ~isNaN(parseFloat(text)),
               updates |-> IF ~isNaN(parseFloat(text))
                           THEN [value |-> parseFloat(text).val] ELSE NoArgs])
    /\ UNCHANGED <<budgets, catVars, envVars, nextId>>
    /\ PersistenceEffects

\* the asset with the given id that find() returns
AssetById(id) ==
    LET i == CHOOSE k \in 1..Len(assets) :
                assets[k].id = id /\ \A j \in 1..(k-1) : assets[j].id # id
    IN  assets[i]

\* the notes box of AddAssetModal: empty, or a text
NotesInputs == {EMPTY, BLANK, "memo"}

\* onAdd of the edit form (AddAssetModal with initialData): handleSubmit
\* passes the name, the category, the parsed amount and the notes to
\* handleUpdateAsset; keepAmount leaves the amount box as the form filled it
EditAssetSubmit(id, cat, keepAmount, value, notesText) ==
    /\ CanStep
    /\ id \in AssetIds
    /\ cat \in CategoryOptions \cup {AssetById(id).category}
    /\ (\A i \in 1..Len(assets) : assets[i].id = id => Len(assets[i].history) < MaxHistory)
    /\ LET amount == IF keepAmount THEN AssetById(id).value ELSE value
           data == [category |-> cat, value |-> amount,
                    notes |-> IF trim(notesText) = EMPTY THEN UNDEFINED ELSE notesText]
       IN  /\ assets' = UpdateAsset(assets, id, data)
           /\ Record("handleUpdateAsset",
                     [id |-> id, text |-> NumText(amount), via |-> "dialog",
                      applied |-> TRUE, updates |-> data])
    /\ UNCHANGED <<budgets, catVars, envVars, nextId>>
    /\ PersistenceEffects

\* handleUpdateAsset(id, updates), for any id and any partial asset
handleUpdateAsset(id, updates) ==
    /\ CanStep
    /\ ("value" \in DOMAIN updates =>
            \A i \in 1..Len(assets) : assets[i].id = id => Len(assets[i].history) < MaxHistory)
    /\ assets' = UpdateAsset(assets, id, updates)
    /\ Record("handleUpdateAsset",
              [id |-> id, text |-> NoNumText, via |-> "call",
               applied |-> TRUE, updates |-> updates])
    /\ UNCHANGED <<budgets, catVars, envVars, nextId>>
    /\ PersistenceEffects

\* onDelete of AssetCard
DeleteAsset(id) ==
    /\ CanStep
    /\ id \in AssetIds
    /\ assets' = SelectSeq(assets, LAMBDA a : a.id # id)
    /\ Record("DeleteAsset", [id |-> id])
    /\ UNCHANGED <<budgets, catVars, envVars, nextId>>
    /\ PersistenceEffects

\* handleDeleteHistoryPoint (App.tsx)
handleDeleteHistoryPoint(assetId, index, confirmed) ==
    /\ CanStep
    /\ build = "App"
    /\ \E i \in 1..Len(assets) : assets[i].id = assetId /\ index \in 1..Len(assets[i].history)
    /\ assets' = IF ~confirmed THEN assets
                 ELSE [i \in 1..Len(assets) |->
                        IF assets[i].id = assetId
                        THEN Merge(assets[i], [history |-> RemoveAt(assets[i].history, index)])
                        ELSE assets[i]]
    /\ Record("handleDeleteHistoryPoint",
              [assetId |-> assetId, index |-> index, confirmed |-> confirmed])
    /\ UNCHANGED <<budgets, catVars, envVars, nextId>>
    /\ PersistenceEffects

\* time passes
Tick ==
    /\ now < 2 * StartDay + MaxTicks
    /\ now' = now + 1
    /\ last' = [op |-> "Tick", args |-> NoArgs, pre |-> Snapshot]
    /\ UNCHANGED <<build, tz, isAutoTheme, backup, insight, idb, boot, assets, budgets,
                   catVars, nextId,
                   steps>>
    /\ PersistenceEffects

\* the page is reloaded: the useState initializers read localStorage, the
\* filters and the promise of the insight service start afresh, and the
\* persistence effects of the first render store every key
Reload ==
    /\ CanStep
    /\ LET h == Hydrated(storage, build, now \div 2, 50)
       IN  /\ assets' = h.assets
           /\ budgets' = h.budgets
           /\ budgetCategoryList' = h.budgetCategoryList
           /\ assetCategoryList' = h.assetCategoryList
           /\ customCategoryColors' = h.customCategoryColors
           /\ themeColor' = h.themeColor
           /\ isAutoTheme' = h.isAutoTheme
    /\ selectedAssetCategory' = ALL
    /\ selectedBudgetCategory' = ALL
    /\ insight' = NoInsight
    /\ Record("mount", [store |-> storage])
    /\ UNCHANGED <<build, now, tz, backup, idb, boot, nextId>>
    /\ storage' = StoredState'

---------------------------------------------------------------------------
(* Export and import.                                                      *)

\* the object handleExportData serialises (src/App.tsx)
ExportData_App ==
    [assets |-> JsonAssets(assets), budgets |-> budgets,
     budgetCategoryList |-> budgetCategoryList,
     assetCategoryList |-> assetCategoryList,
     themeColor |-> themeColor, isAutoTheme |-> isAutoTheme,
     customCategoryColors |-> customCategoryColors]

\* the object handleCopyBackup serialises (part_004)
ExportData_part_004 ==
    [assets |-> JsonAssets(assets), budgets |-> budgets,
     budgetCategoryList |-> budgetCategoryList,
     assetCategoryList |-> assetCategoryList,
     themeColor |-> themeColor,
     customCategoryColors |-> customCategoryColors]

ExportData == IF build = "App" THEN ExportData_App ELSE ExportData_part_004

\* texts of the import box: the text of a JSON object, the empty text, white
\* space, text that is no JSON, and the JSON text null
JsonText(data) == [kind |-> "json", data |-> data]
EmptyText == [kind |-> "empty", data |-> NoArgs]
BlankText == [kind |-> "blank", data |-> NoArgs]
GarbageText == [kind |-> "garbage", data |-> NoArgs]
NullText == [kind |-> "null", data |-> NoArgs]
\* a document that holds the two ledgers only, both empty
PartialText == JsonText([assets |-> <<>>, budgets |-> <<>>])
ImportTexts ==
    {EmptyText, BlankText, GarbageText, NullText, PartialText} \cup ({backup} \ {NoBackup})

\* the messages of alert()
ALERT_PASTE == "paste the backup data"
ALERT_IMPORT_FAILED == "import failed, check the format"
ALERT_IMPORTED == "imported"
ALERT_INVALID == "invalid data"
ALERT_RESTORED == "restored"

\* what the import handlers write
Imported ==
    [assets |-> assets, budgets |-> budgets,
     budgetCategoryList |-> budgetCategoryList,
     assetCategoryList |-> assetCategoryList,
     themeColor |-> themeColor,
     customCategoryColors |-> customCategoryColors]

\* a variant of handleImportData that empties the ledgers before it parses
ImportDataEager(text, cur) ==
    IF text.kind \in {"empty", "blank"} THEN Merge(cur, [alert |-> ALERT_PASTE])
    ELSE IF text.kind \in {"garbage", "null"}
    THEN Merge(cur, [assets |-> <<>>, budgets |-> <<>>, alert |-> ALERT_IMPORT_FAILED])
    ELSE Merge(Merge(cur, [f \in (DOMAIN cur) \cap (DOMAIN text.data) |-> text.data[f]]),
               [alert |-> ALERT_IMPORTED])

\* handleImportData (src/App.tsx): the values it leaves and the alert it
\* shows. A blank text returns early; JSON.parse throws on text that is no
\* JSON and data.assets throws on null, both inside the try; an array, an
\* object and a non-empty text are truthy.
ImportData_App(text, cur) ==
    IF text.kind \in {"empty", "blank"} THEN Merge(cur, [alert |-> ALERT_PASTE])
    ELSE IF text.kind \in {"garbage", "null"}
    THEN Merge(cur, [alert |-> ALERT_IMPORT_FAILED])
    ELSE LET data == text.data
             Take(f) == IF f \in DOMAIN data THEN data[f] ELSE cur[f]
         IN  [assets |-> Take("assets"), budgets |-> Take("budgets"),
              budgetCategoryList |-> Take("budgetCategoryList"),
              assetCategoryList |-> Take("assetCategoryList"),
              themeColor |-> IF "themeColor" \in DOMAIN data /\ data.themeColor # EMPTY
                             THEN data.themeColor ELSE cur.themeColor,
              customCategoryColors |-> Take("customCategoryColors"),
              alert |-> ALERT_IMPORTED]

\* the restore button of part_004: JSON.parse throws on the empty text, on
\* white space and on text that is no JSON, d.assets throws on null
RestoreFromText(text, cur) ==
    IF text.kind \in {"empty", "blank", "garbage", "null"}
    THEN Merge(cur, [alert |-> ALERT_INVALID])
    ELSE Merge(cur, [assets |-> text.data.assets, budgets |-> text.data.budgets,
                     alert |-> ALERT_RESTORED])

\* handleExportData (src/App.tsx), handleCopyBackup (part_004)
handleExportData ==
    /\ backup # JsonText(ExportData)
    /\ backup' = JsonText(ExportData)
    /\ last' = [op |-> "handleExportData", args |-> NoArgs, pre |-> Snapshot]
    /\ UNCHANGED <<build, now, tz, isAutoTheme, insight, idb, boot, assets, budgets,
                   catVars, nextId,
                   steps>>
    /\ PersistenceEffects

\* handleImportData (src/App.tsx), the restore button (part_004)
handleImportData(text) ==
    /\ CanStep
    /\ text \in ImportTexts
    /\ LET result == IF build = "App" THEN ImportData_App(text, Imported)
                                       ELSE RestoreFromText(text, Imported)
       IN  /\ assets' = result.assets
           /\ budgets' = result.budgets
           /\ budgetCategoryList' = result.budgetCategoryList
           /\ assetCategoryList' = result.assetCategoryList
           /\ themeColor' = result.themeColor
           /\ customCategoryColors' = result.customCategoryColors
           \* neither handler calls confirm() before it writes
           /\ Record("handleImportData",
                     [text |-> text, alert |-> result.alert, confirmed |-> FALSE])
    /\ UNCHANGED <<selectedAssetCategory, selectedBudgetCategory, envVars, nextId>>
    /\ PersistenceEffects

---------------------------------------------------------------------------
(* Startup of the IndexedDB variant (part_003).                            *)

INITIAL_ASSETS_part_003(day, drift) == SubSeq(INITIAL_ASSETS_App(day, drift), 1, 3)
INITIAL_BUDGETS_part_003 == SubSeq(INITIAL_BUDGETS_part_004, 1, 2)

DBItem(value) == [kind |-> "value", data |-> value]

\* what each persistence effect hands to saveToDB
SavedValue(n) ==
    CASE n = 1 -> assets
      [] n = 2 -> budgets
      [] n = 3 -> assetCategoryList
      [] n = 4 -> budgetCategoryList
      [] n = 5 -> customCategoryColors
      [] n = 6 -> <<themeColor>>
      [] n = 7 -> <<boot.isSmallCardMode>>

\* the persistence effects of the render in which isAppReady has become
\* true: every effect calls saveToDB(key, value); the pending call of each key
SaveEffects == [n \in 1..Len(DBKeys) |-> DBItem(SavedValue(n))]

\* if (stored) set(stored); else set(fallback)
StoredOr(item, fallback) == IF item.kind = "absent" THEN fallback ELSE item.data

\* an await loadFromDB(key) of loadAllData resolves; after the last one the
\* setters run and loadAllData waits for its timer
loadFromDB_resolves ==
    /\ boot.pc = "loading"
    /\ LET loaded == [boot.loaded EXCEPT ![boot.next] = idb[boot.next]]
       IN  IF boot.next < Len(DBKeys)
           THEN /\ boot' = [boot EXCEPT !.next = @ + 1, !.loaded = loaded]
                /\ UNCHANGED <<assets, budgets, assetCategoryList, budgetCategoryList,
                               customCategoryColors, themeColor>>
           ELSE /\ assets' = StoredOr(loaded[1], INITIAL_ASSETS_part_003(now \div 2, 50))
                /\ budgets' = StoredOr(loaded[2], INITIAL_BUDGETS_part_003)
                /\ assetCategoryList' = StoredOr(loaded[3], assetCategoryList)
                /\ budgetCategoryList' = StoredOr(loaded[4], budgetCategoryList)
                /\ customCategoryColors' = StoredOr(loaded[5], customCategoryColors)
                /\ themeColor' = StoredOr(loaded[6], <<themeColor>>)[1]
                /\ boot' = [boot EXCEPT !.pc = "waiting", !.next = 0, !.loaded = loaded,
                                        !.isSmallCardMode = StoredOr(loaded[7], <<@>>)[1]]
    /\ UNCHANGED <<build, now, tz, isAutoTheme, backup, insight, storage, idb,
                   selectedAssetCategory, selectedBudgetCategory, nextId, steps, last>>

\* an await loadFromDB(key) rejects: the catch block sets isAppReady, and the
\* persistence effects of the next render save the state as it is
loadFromDB_rejects ==
    /\ boot.pc = "loading"
    /\ boot' = [boot EXCEPT !.pc = "ready", !.failed = TRUE, !.isAppReady = TRUE,
                            !.saves = SaveEffects]
    /\ UNCHANGED <<build, now, tz, isAutoTheme, backup, insight, storage, idb, assets, budgets,
                   catVars, nextId, steps, last>>

\* the timer of loadAllData fires: setIsAppReady(true), and the persistence
\* effects of the next render save the state
ReadyTimer ==
    /\ boot.pc = "waiting"
    /\ boot' = [boot EXCEPT !.pc = "ready", !.isAppReady = TRUE, !.saves = SaveEffects]
    /\ UNCHANGED <<build, now, tz, isAutoTheme, backup, insight, storage, idb, assets, budgets,
                   catVars, nextId, steps, last>>

\* a saveToDB(key, value) call settles: store.put succeeds, or the promise
\* rejects (no caller handles it)
saveToDB_settles(n, succeeds) ==
    /\ boot.saves[n].kind = "value"
    /\ idb' = IF succeeds THEN [idb EXCEPT ![n] = boot.saves[n]] ELSE idb
    /\ boot' = [boot EXCEPT !.saves[n] = NoDB[n]]
    /\ UNCHANGED <<build, now, tz, isAutoTheme, backup, insight, storage, assets, budgets,
                   catVars, nextId, steps, last>>

\* the object store an earlier session has left: the two ledgers stored or
\* not, the registries and the settings stored or not
EarlierDBs ==
    {[n \in 1..Len(DBKeys) |->
        CASE n = 1 -> IF n \in present
                      THEN DBItem(<<Asset(1, CASH, 700, InitialLastUpdated,
                                          <<HistoryPoint(ISODate(StartDay - 1), 700)>>)>>)
                      ELSE NoDB[n]
          [] n = 2 -> IF n \in present
                      THEN DBItem(<<BudgetT(TOTAL, UNDEFINED, 100, 100),
                                    BudgetT(LIFE, "Dining", 100, 100)>>)
                      ELSE NoDB[n]
          [] n = 3 -> IF n \in present THEN DBItem(<<CASH, LIABILITY, NEWCAT>>) ELSE NoDB[n]
          [] n = 4 -> IF n \in present THEN DBItem(<<LIFE, NEWCAT>>) ELSE NoDB[n]
          [] n = 5 -> IF n \in present THEN DBItem(CategoryColors_App) ELSE NoDB[n]
          [] n = 6 -> IF n \in present THEN DBItem(<<THEME_COLORS[2]>>) ELSE NoDB[n]
          [] n = 7 -> IF n \in present THEN DBItem(<<TRUE>>) ELSE NoDB[n]] :
        present \in {{}, {1}, {2}, {1, 2}, 1..Len(DBKeys)}}

\* the first render of part_003: the useState defaults, loadAllData started
InitStartup ==
    \E db \in EarlierDBs :
        /\ build = "part_003"
        /\ tz = 0
        /\ now = 2 * StartDay
        /\ assets = <<>>
        /\ budgets = <<>>
        /\ budgetCategoryList = DEFAULT_BUDGET_CATEGORIES
        /\ assetCategoryList = DEFAULT_ASSET_CATEGORIES_App
        /\ customCategoryColors = CategoryColors_App
        /\ selectedAssetCategory = ALL
        /\ selectedBudgetCategory = ALL
        /\ themeColor = "#ef4444"
        /\ isAutoTheme = FALSE
        /\ backup = NoBackup
        /\ insight = NoInsight
        /\ storage = [k \in StorageKeys |-> NoItem]
        /\ idb = db
        /\ boot = [pc |-> "loading", next |-> 1, loaded |-> NoDB, failed |-> FALSE,
                   isAppReady |-> FALSE, isSmallCardMode |-> FALSE, saves |-> NoDB,
                   before |-> db]
        /\ nextId = 6
        /\ steps = 0
        /\ last = [op |-> "init", args |-> NoArgs, pre |-> NoArgs]

---------------------------------------------------------------------------
(* The insight service (services/geminiService.ts).                        *)

\* the object of the catch block
FALLBACK_INSIGHT ==
    [summary |-> "AI analysis is not available, check the network or the API configuration",
     suggestions |-> <<"keep a rational mind", "review the assets regularly">>,
     riskLevel |-> "medium"]

\* an answer of the model that follows the response schema
SCHEMA_INSIGHT ==
    [summary |-> "balanced", suggestions |-> <<"hold">>, riskLevel |-> "low"]

\* assets.map(a => `${a.name}(${a.category}): ${a.value}`)
assetSummary(as) == [i \in 1..Len(as) |-> <<as[i].id, as[i].category, as[i].value>>]

\* what the constructor of GoogleGenAI does with the configured API key
ConstructionOutcomes == {"constructed", "constructor throws"}

\* what ai.models.generateContent does: it rejects, or it resolves with a
\* response whose text is undefined, empty, no JSON, the JSON of an object
\* without the fields, or the JSON of an object of the schema
ServiceOutcomes ==
    {"rejects", "text undefined", "text empty", "text no JSON", "text {}", "text of schema"}

\* JSON.parse(response.text || '{}') inside the try, the fallback in the catch
InsightOf(outcome) ==
    CASE outcome = "rejects" -> FALLBACK_INSIGHT
      [] outcome = "text undefined" -> <<>>
      [] outcome = "text empty" -> <<>>
      [] outcome = "text no JSON" -> FALLBACK_INSIGHT
      [] outcome = "text {}" -> <<>>
      [] outcome = "text of schema" -> SCHEMA_INSIGHT

\* getAIInsights(assets) up to its await: the client is constructed and the
\* prompt is built outside the try, so a throwing constructor rejects the
\* promise
getAIInsights(construction) ==
    /\ CanStep
    /\ insight.pc # "awaiting"
    /\ insight' = IF construction = "constructor throws"
                  THEN [pc |-> "rejected", prompt |-> <<>>, cause |-> construction,
                        value |-> NoArgs]
                  ELSE [pc |-> "awaiting", prompt |-> assetSummary(assets),
                        cause |-> "none", value |-> NoArgs]
    /\ Record("getAIInsights", [construction |-> construction])
    /\ UNCHANGED <<build, now, tz, isAutoTheme, backup, idb, boot, assets, budgets,
                   catVars, nextId>>
    /\ PersistenceEffects

\* the continuation of getAIInsights after the await
InsightSettles(outcome) ==
    /\ insight.pc = "awaiting"
    /\ insight' = [pc |-> "resolved", prompt |-> insight.prompt, cause |-> outcome,
                   value |-> InsightOf(outcome)]
    /\ last' = [op |-> "InsightSettles", args |-> [outcome |-> outcome], pre |-> Snapshot]
    /\ UNCHANGED <<build, now, tz, isAutoTheme, backup, idb, boot, assets, budgets,
                   catVars, nextId,
                   steps>>
    /\ PersistenceEffects

---------------------------------------------------------------------------
(* Specifications.                                                         *)

BudgetOps ==
    \/ \E i \in 1..MaxBudgets, t \in TypedTexts : BudgetCardSaveValue(i, t)
    \/ \E i \in 1..MaxBudgets, c \in PromptInputs \cup {LIFE} : EditBudgetCategory(i, c)
    \/ \E i \in 1..MaxBudgets : EditBudgetSubCategory(i, "Renamed")
    \/ \E i \in 1..MaxBudgets, t \in TypedTexts : EditBudgetMonthlyAmount(i, t)
    \/ \E t \in TypedTexts : handleSaveTotalLimit(t)
    \/ \E i \in 1..MaxBudgets, t \in TypedTexts : handleQuickAdd(i, t)
    \/ \E i \in 1..MaxBudgets, t \in TypedTexts : handleManualAddTransaction(i, t)
    \/ \E i \in 1..MaxBudgets, c \in BOOLEAN : handleDeleteBudget(i, c)
    \/ \E i \in 1..MaxBudgets : DeleteBudgetButton(i)
    \/ AddBudgetRow
    \/ \E c \in BOOLEAN : handleClearData(c)

\* the names a run can point at: the prompt answers and the built-in names
CategoryNames ==
    PromptInputs \cup Elems(DEFAULT_ASSET_CATEGORIES_App)
        \cup Elems(DEFAULT_ASSET_CATEGORIES_part_004)
        \cup Elems(DEFAULT_BUDGET_CATEGORIES)

CategoryOps(types) ==
    \/ \E o \in CategoryNames,
          n \in PromptInputs, t \in types : handleRenameCategoryAction(o, n, t)
    \/ \E o \in CategoryNames,
          t \in types, c \in BOOLEAN : handleDeleteCategoryAction(o, t, c)
    \/ \E n \in PromptInputs, t \in types, k \in 1..ColorChoices : handleAddCategory(n, t, k)

FilterOps ==
    \/ \E o \in CategoryNames \cup {ALL},
          t \in Domains : SelectCategory(o, t)
    \/ \E k \in 1..ColorChoices : SetThemeColor(k)

AssetOps(cats, texts, confirms) ==
    \/ \E c \in cats, t \in texts : ~isNaN(parseFloat(t)) /\ AddAsset(c, parseFloat(t).val)
    \/ \E id \in 1..(5 + MaxAssets), t \in texts : AssetCardSaveValue(id, t)
    \/ \E id \in 1..(5 + MaxAssets) : DeleteAsset(id)
    \/ \E id \in 1..(5 + MaxAssets), k \in 1..MaxHistory, c \in confirms :
            handleDeleteHistoryPoint(id, k, c)
    \/ Tick

\* the partial assets a caller may pass to handleUpdateAsset
PartialAssets(cats, values) ==
    {[value |-> v] : v \in values}
        \cup {[category |-> c] : c \in cats}
        \cup {[notes |-> "memo"]}
        \cup {[category |-> c, notes |-> "memo"] : c \in cats}
        \cup {[category |-> c, value |-> v] : c \in cats, v \in values}

AssetEditOps(ids, cats, values, notes) ==
    \/ \E id \in ids, c \in cats, k \in BOOLEAN, v \in values, n \in notes :
            EditAssetSubmit(id, c, k, v, n)
    \/ \E id \in ids, u \in PartialAssets(cats, values) : handleUpdateAsset(id, u)

\* the budget ledger: budget rows and the budget category registry
NextBudget == BudgetOps \/ CategoryOps({"budget"})
SpecBudget == Init /\ [][NextBudget]_vars

\* the category registries of both domains
NextCategory == CategoryOps(Domains) \/ FilterOps
SpecCategory == Init /\ [][NextCategory]_vars

\* a ledger read back from localStorage (or imported): asset 1 holds up to
\* MaxStored points stored in any order, in both date formats; asset 2 is a
\* liability of 500 with one point
MaxStored == 3
StoredDates ==
    {ISODate(StartDay - 2), ISODate(StartDay - 1), ISODate(StartDay),
     MDDate(StartDay - 1)}
\* the value stored with the k-th point
StoredValue(k) == IF k = 1 THEN 2000 ELSE 100 * k
StoredHistories ==
    UNION {[1..n -> StoredDates] : n \in 1..MaxStored}
StoredAsset(id, cat, dates) ==
    LET history == [k \in 1..Len(dates) |-> HistoryPoint(dates[k], StoredValue(k))]
    IN  Asset(id, cat, history[Len(history)].value, InitialLastUpdated, history)
StoredLedgers(b) ==
    {<< StoredAsset(1, IF b = "App" THEN CASH ELSE THIRD_PARTY, dates),
        Asset(2, LIABILITY, 500, InitialLastUpdated, <<HistoryPoint(d, 500)>>) >> :
        dates \in StoredHistories,
        d \in {ISODate(StartDay - 1), MDDate(StartDay - 1)}}

\* the first render with a stored asset ledger, in any timezone
InitStored ==
    \E b \in Builds, zone \in TZs :
        /\ build = b
        /\ tz = zone
        /\ now = 2 * StartDay
        /\ assets \in StoredLedgers(b)
        /\ budgets = IF b = "App" THEN INITIAL_BUDGETS_App ELSE INITIAL_BUDGETS_part_004
        /\ budgetCategoryList = DEFAULT_BUDGET_CATEGORIES
        /\ assetCategoryList = IF b = "App" THEN DEFAULT_ASSET_CATEGORIES_App
                                             ELSE DEFAULT_ASSET_CATEGORIES_part_004
        /\ customCategoryColors = IF b = "App" THEN CategoryColors_App
                                                ELSE CategoryColors_part_004
        /\ selectedAssetCategory = ALL
        /\ selectedBudgetCategory = ALL
        /\ themeColor = "#ef4444"
        /\ isAutoTheme = FALSE
        /\ backup = NoBackup
        /\ insight = NoInsight
        /\ idb = <<>>
        /\ boot = NoBoot
        /\ storage = StoredState
        /\ nextId = 3
        /\ steps = 0
        /\ last = [op |-> "init", args |-> NoArgs, pre |-> NoArgs]

\* the trend over a stored ledger: value updates and the clock
NextAlign ==
    \/ \E id \in 1..2 : AssetCardSaveValue(id, NumText(100))
    \/ Tick
SpecAlign == InitStored /\ [][NextAlign]_vars

\* the asset ledger and the clock
NextTrend ==
    \/ AssetOps({LIABILITY, OTHER_CAT}, {NumText(100)}, {TRUE})
    \/ handleClearData(TRUE)
SpecTrend == InitAnywhere /\ [][NextTrend]_vars

\* the handlers that update one asset, for a known and an unknown id, in any
\* timezone
InitZones == \E b \in Builds, zone \in TZs : InitWith(b, zone, 50)
NextUpdate ==
    \/ \E id \in {1, 6}, t \in {NumText(100), NoNumText} : AssetCardSaveValue(id, t)
    \/ AssetEditOps({1, 6}, {LIABILITY}, {100}, {EMPTY, "memo"})
    \/ Tick
SpecUpdate == InitZones /\ [][NextUpdate]_vars

\* every handler that writes the asset ledger
NextLedger ==
    \/ AssetOps({LIABILITY, OTHER_CAT}, {NumText(100)}, BOOLEAN)
    \/ AssetEditOps({1, 6}, {LIABILITY}, {100}, {EMPTY, "memo"})
    \/ \E c \in BOOLEAN : handleClearData(c)
    \/ CategoryOps({"asset"})
SpecLedger == Init /\ [][NextLedger]_vars

\* export, changes of every exported component, import
NextBackup ==
    \/ handleExportData
    \/ \E kind \in {"json", "empty", "blank", "garbage", "null"} :
          \E text \in ImportTexts : text.kind = kind /\ handleImportData(text)
    \/ \E k \in 1..ColorChoices : SetThemeColor(k)
    \/ \E t \in Domains, k \in 1..ColorChoices : handleAddCategory(NEWCAT, t, k)
    \/ \E t \in Domains : handleRenameCategoryAction(LIABILITY, NEWCAT, t)
    \/ handleClearData(TRUE)
    \/ AssetEditOps({1}, {LIABILITY}, {100}, {EMPTY, "memo"})
SpecBackup == Init /\ [][NextBackup]_vars

\* changes of every persisted collection, and reloads of the page
NextPersist ==
    \/ \E id \in {1, 6}, t \in {NumText(100), NoNumText} : AssetCardSaveValue(id, t)
    \/ AssetEditOps({1}, {LIABILITY}, {100}, {EMPTY, "memo"})
    \/ \E i \in 1..2, t \in {NumText(100)} : BudgetCardSaveValue(i, t)
    \/ \E t \in Domains, k \in 1..ColorChoices : handleAddCategory("Extra", t, k)
    \/ \E t \in Domains : handleRenameCategoryAction(LIABILITY, "Extra", t)
    \/ \E t \in Domains : handleDeleteCategoryAction(LIFE, t, TRUE)
    \/ \E k \in 1..ColorChoices : SetThemeColor(k)
    \/ handleClearData(TRUE)
    \/ Reload
SpecPersist == InitPersist /\ [][NextPersist]_vars

\* spend recorded on the budget rows, with and without a render in between
NextSerial ==
    \/ \E i \in 1..MaxBudgets, t \in TypedTexts : handleQuickAdd(i, t)
    \/ \E i \in 1..MaxBudgets, t \in TypedTexts : handleManualAddTransaction(i, t)
    \/ handleQuickAddBeforeRender
SpecSerial == Init /\ [][NextSerial]_vars

\* assets added and asset values saved, on the same day and on later days
NextNetWorth ==
    \/ \E c \in {LIABILITY, OTHER_CAT}, v \in {100, 700} : AddAsset(c, v)
    \/ \E id \in 1..(5 + MaxAssets), v \in {100, 700} : AssetCardSaveValue(id, NumText(v))
    \/ Tick
SpecNetWorth == Init /\ [][NextNetWorth]_vars

\* the startup of the IndexedDB variant: the loads, the timer, the saves
NextStartup ==
    \/ loadFromDB_resolves
    \/ loadFromDB_rejects
    \/ ReadyTimer
    \/ \E n \in 1..Len(DBKeys), succeeds \in BOOLEAN : saveToDB_settles(n, succeeds)
SpecStartup == InitStartup /\ [][NextStartup]_vars

\* the inputs that take an amount
AmountOps ==
    \/ \E id \in 1..(5 + MaxAssets), t \in TypedTexts : AssetCardSaveValue(id, t)
    \/ \E i \in 1..MaxBudgets, t \in TypedTexts : BudgetCardSaveValue(i, t)
    \/ \E i \in 1..MaxBudgets, t \in TypedTexts : handleQuickAdd(i, t)
    \/ \E i \in 1..MaxBudgets, t \in TypedTexts : handleManualAddTransaction(i, t)
    \/ \E t \in TypedTexts : handleSaveTotalLimit(t)
    \/ \E i \in 1..MaxBudgets, t \in TypedTexts : EditBudgetMonthlyAmount(i, t)
    \/ \E c \in CategoryNames, t \in TypedTexts :
            ~isNaN(parseFloat(t)) /\ AddAsset(c, parseFloat(t).val)
    \/ \E n \in {EMPTY, "Wallet"}, t \in TypedTexts : handleSubmitIncomplete(n, t)
NextAmounts == AmountOps
SpecAmounts == Init /\ [][NextAmounts]_vars

\* the insight service, while the user goes on updating assets
NextInsight ==
    \/ \E c \in ConstructionOutcomes : getAIInsights(c)
    \/ \E o \in ServiceOutcomes : InsightSettles(o)
    \/ \E id \in {1, 5} : AssetCardSaveValue(id, NumText(100))
    \/ Tick
SpecInsight == Init /\ [][NextInsight]_vars

\* everything
Next ==
    \/ BudgetOps \/ CategoryOps(Domains) \/ FilterOps
    \/ AssetOps(CategoryNames, TypedTexts, BOOLEAN)
    \/ AssetEditOps(1..(5 + MaxAssets), CategoryNames, Amounts, NotesInputs)
    \/ handleExportData
    \/ \E kind \in {"json", "empty", "blank", "garbage", "null"} :
          \E text \in ImportTexts : text.kind = kind /\ handleImportData(text)
Spec == Init /\ [][Next]_vars

---------------------------------------------------------------------------
(* Properties of the budget ledger (SpecBudget).                           *)

\* the rows the Total row summarises
NonTotalRows(bs) == SelectSeq(bs, NotTotalRow)

\* the Total row the budget tab shows (the first one) holds the sums of the
\* other rows
TotalMatchesSums(bs) ==
    LET t == findTotalIdx(bs)
    IN  /\ t # 0
        /\ bs[t].monthlyAmount = SumField(NonTotalRows(bs), "monthlyAmount")
        /\ bs[t].spentThisMonth = SumField(NonTotalRows(bs), "spentThisMonth")

\* the operations that hand a non-total row to handleUpdateBudget
UpdateOps == {"handleUpdateBudget", "handleQuickAdd", "handleManualAddTransaction"}

\* handleUpdateBudget has just been applied to a non-total row of a ledger
\* with a Total row
UpdatedNonTotalRow ==
    /\ last.op \in UpdateOps
    /\ last.args.applied
    /\ findTotalIdx(last.pre.budgets) # 0
    /\ NotTotalRow(last.pre.budgets[last.args.index])

\* C1: after handleUpdateBudget is applied to a non-total row of a ledger
\* that has a Total row, the Total row holds the sum of monthlyAmount and the
\* sum of spentThisMonth over all non-total rows, whatever it held before.
C1_TotalRecomputedAfterUpdate ==
    UpdatedNonTotalRow => TotalMatchesSums(budgets)

\* C2: in every reachable state of the budget ledger the Total row holds the
\* sums of monthlyAmount and spentThisMonth over the non-total rows.
C2_TotalAlwaysMatchesSums ==
    findTotalIdx(budgets) # 0 => TotalMatchesSums(budgets)

\* the Total row's numeric fields differ from what they were before the
\* last operation
TotalFieldsChanged ==
    LET t == findTotalIdx(budgets)
        u == findTotalIdx(last.pre.budgets)
    IN  /\ t # 0 /\ u # 0
        /\ \/ budgets[t].monthlyAmount # last.pre.budgets[u].monthlyAmount
           \/ budgets[t].spentThisMonth # last.pre.budgets[u].spentThisMonth

\* C3: the Total row's numeric fields change only by recomputation from the
\* non-total rows; saving the total limit does not leave the typed value in
\* the Total row's monthlyAmount when it differs from the sum of the rows.
C3_TotalNeverUserSupplied ==
    /\ (last.op # "init" /\ TotalFieldsChanged) => TotalMatchesSums(budgets)
    /\ (/\ last.op = "handleSaveTotalLimit"
        /\ ~isNaN(parseFloat(last.args.text))
        /\ findTotalIdx(budgets) # 0
        /\ parseFloat(last.args.text).val
             # SumField(NonTotalRows(budgets), "monthlyAmount"))
       => budgets[findTotalIdx(budgets)].monthlyAmount
             # parseFloat(last.args.text).val

\* C4: after a non-total row is deleted the Total row is still present and
\* holds the sums over the remaining non-total rows.
C4_TotalRecomputedAfterDelete ==
    (/\ last.op = "handleDeleteBudget"
     /\ last.args.confirmed
     /\ findTotalIdx(last.pre.budgets) # 0)
    => TotalMatchesSums(budgets)

---------------------------------------------------------------------------
(* Properties of the category registries (SpecCategory).                   *)

\* the registry, the records and the filter of a domain, now and before the
\* last operation
ListOf(type) == IF type = "budget" THEN budgetCategoryList ELSE assetCategoryList
PreListOf(type) ==
    IF type = "budget" THEN last.pre.budgetCategoryList ELSE last.pre.assetCategoryList
RecordsOf(type) == IF type = "budget" THEN budgets ELSE assets
PreRecordsOf(type) == IF type = "budget" THEN last.pre.budgets ELSE last.pre.assets
FilterOf(type) ==
    IF type = "budget" THEN selectedBudgetCategory ELSE selectedAssetCategory
PreFilterOf(type) ==
    IF type = "budget" THEN last.pre.selectedBudgetCategory
                       ELSE last.pre.selectedAssetCategory

\* the positions of the records of a category
IndicesOf(records, cat) == {i \in 1..Len(records) : records[i].category = cat}

\* a list without every occurrence of a name, the order kept
RECURSIVE Without(_, _)
Without(list, name) ==
    IF list = <<>> THEN <<>>
    ELSE IF Head(list) = name THEN Without(Tail(list), name)
    ELSE <<Head(list)>> \o Without(Tail(list), name)

DeletedCategory == last.op = "handleDeleteCategoryAction" /\ last.args.confirmed
RenamedCategory == last.op = "handleRenameCategoryAction" /\ last.args.newName # NULL

\* C5: after every confirmed category deletion every asset's category is in
\* the asset registry and every non-total budget row's category is in the
\* budget registry.
C5_NoDanglingCategoryAfterDelete ==
    DeletedCategory =>
        /\ \A i \in 1..Len(assets) : includes(assetCategoryList, assets[i].category)
        /\ \A i \in 1..Len(budgets) :
              NotTotalRow(budgets[i]) => includes(budgetCategoryList, budgets[i].category)

\* C6: a confirmed deletion of category N moves exactly the records of N to
\* the fallback category and leaves the others as they were, removes N from
\* the registry keeping the order of the rest, and resets the filter to ALL
\* exactly when it was N; a declined deletion changes nothing.
C6_DeleteCategoryEffect ==
    last.op = "handleDeleteCategoryAction" =>
        IF last.args.confirmed
        THEN LET type == last.args.type
                 N == last.args.name
                 pre == PreRecordsOf(type)
                 post == RecordsOf(type)
             IN  /\ Len(post) = Len(pre)
                 /\ \A i \in 1..Len(pre) :
                       post[i] = IF pre[i].category = N
                                 THEN [pre[i] EXCEPT !.category = OTHER_CAT]
                                 ELSE pre[i]
                 /\ ListOf(type) = Without(PreListOf(type), N)
                 /\ FilterOf(type) = IF PreFilterOf(type) = N THEN ALL
                                                             ELSE PreFilterOf(type)
        ELSE Snapshot = last.pre

\* a confirmed deletion of the category the filter shows, with records in
\* that category and records in another one
C6_Witness ==
    /\ DeletedCategory
    /\ PreFilterOf(last.args.type) = last.args.name
    /\ IndicesOf(PreRecordsOf(last.args.type), last.args.name) # {}
    /\ IndicesOf(PreRecordsOf(last.args.type), last.args.name)
          # 1..Len(PreRecordsOf(last.args.type))

\* C7: after a rename that takes effect the records of the new name are
\* exactly the records that had the old name, and the new name stands in
\* the registry where the old name stood, the other names staying in place.
C7_RenameKeepsRecordSet ==
    RenamedCategory =>
        LET type == last.args.type
        IN  /\ IndicesOf(RecordsOf(type), last.args.newName)
                 = IndicesOf(PreRecordsOf(type), last.args.oldName)
            /\ Len(ListOf(type)) = Len(PreListOf(type))
            /\ \A i \in 1..Len(ListOf(type)) :
                  ListOf(type)[i] = IF PreListOf(type)[i] = last.args.oldName
                                    THEN last.args.newName
                                    ELSE PreListOf(type)[i]

\* C8: a rename whose new name is empty or already in the registry of the
\* domain leaves the registry, the records, the color map and the filter
\* as they were.
C8_RejectedRenameIsNoOp ==
    (/\ last.op = "handleRenameCategoryAction"
     /\ \/ last.args.input = EMPTY
        \/ includes(PreListOf(last.args.type), last.args.input))
    => Snapshot = last.pre

\* C9: after a successful rename the color map has no entry for the old
\* name and gives the new name the color the old name had (the theme color
\* when it had none), and the filter follows the name when it showed it.
C9_RenameMovesColorAndFilter ==
    RenamedCategory =>
        LET type == last.args.type
            oldName == last.args.oldName
            newName == last.args.newName
            before == last.pre.customCategoryColors
        IN  /\ oldName \notin DOMAIN customCategoryColors
            /\ newName \in DOMAIN customCategoryColors
            /\ customCategoryColors[newName] =
                  IF oldName \in DOMAIN before THEN before[oldName]
                                               ELSE last.pre.themeColor
            /\ FilterOf(type) = IF PreFilterOf(type) = oldName THEN newName
                                                               ELSE PreFilterOf(type)

\* a rename that took effect on the category the filter showed, the old name
\* having a color of its own
C9_Witness ==
    /\ RenamedCategory
    /\ PreFilterOf(last.args.type) = last.args.oldName
    /\ last.args.oldName \in DOMAIN last.pre.customCategoryColors
    /\ last.pre.customCategoryColors[last.args.oldName] # last.pre.themeColor

---------------------------------------------------------------------------
(* Properties of the net-worth trend (SpecTrend).                          *)

\* the date texts of all history points of all assets
HistoryDates(as) ==
    UNION {{as[i].history[k].date : k \in 1..Len(as[i].history)} : i \in 1..Len(as)}

\* C10: for a non-empty asset ledger the trend has exactly one point for
\* each distinct date text of any asset's history and no other point, and
\* its points are in non-decreasing order of parseDate.
C10_TrendDatesUniqueAndSorted ==
    Len(assets) # 0 =>
        LET trend == globalHistory(assets)
        IN  /\ {trend[i].date : i \in 1..Len(trend)} = HistoryDates(assets)
            /\ \A i, j \in 1..Len(trend) : trend[i].date = trend[j].date => i = j
            /\ \A i \in 1..(Len(trend) - 1) :
                  parseDate(trend[i].date) <= parseDate(trend[i + 1].date)

\* a ledger whose dates come in both formats and are seen out of order when
\* collected, some asset holding more than one point
C10_Witness ==
    /\ Len(assets) # 0
    /\ \E i \in 1..Len(assets) : Len(assets[i].history) >= 2
    /\ \E d, e \in HistoryDates(assets) : d.fmt = "ISO" /\ e.fmt = "MD"
    /\ \E i, j \in 1..Len(allDates(assets)) :
          i < j /\ parseDate(allDates(assets)[i]) > parseDate(allDates(assets)[j])

(* Properties of the carried-forward contributions (SpecAlign).            *)

\* the stored points of a history that are dated at or before a time
AtOrBefore(hist, t) == {k \in 1..Len(hist) : parseDate(hist[k].date) <= t}

\* among them, the points with the latest date
LatestAtOrBefore(hist, t) ==
    {k \in AtOrBefore(hist, t) :
        \A j \in AtOrBefore(hist, t) : parseDate(hist[j].date) <= parseDate(hist[k].date)}

\* C11: at every date of the trend, an asset contributes the value recorded
\* at its latest snapshot dated at or before that date (so the value of D1
\* on all of [D1, D2) when no snapshot lies between D1 and D2), and zero when
\* the date is earlier than all its snapshots, in whatever order the history
\* array stores the snapshots.
C11_CarryForward ==
    LET trend == globalHistory(assets)
    IN  \A i \in 1..Len(assets), n \in 1..Len(trend) :
            LET hist == assets[i].history
                latest == LatestAtOrBefore(hist, parseDate(trend[n].date))
                val == AssetValueAt(assets[i], trend[n].date)
            IN  IF latest = {} THEN val = 0
                ELSE \E k \in latest : val = hist[k].value

\* an asset that stores a later snapshot before an earlier one and, at a
\* trend date between the two at which it has no snapshot, contributes the
\* earlier one's value; and an asset with a trend date before its first
\* snapshot
C11_Witness ==
    LET trend == globalHistory(assets)
    IN  /\ \E i \in 1..Len(assets) :
              LET hist == assets[i].history
              IN  \E j, k \in 1..Len(hist), n \in 1..Len(trend) :
                      /\ j < k
                      /\ parseDate(hist[k].date) < parseDate(trend[n].date)
                      /\ parseDate(trend[n].date) < parseDate(hist[j].date)
                      /\ LatestAtOrBefore(hist, parseDate(trend[n].date)) = {k}
                      /\ AssetValueAt(assets[i], trend[n].date) = hist[k].value
                      /\ hist[k].value # 0
        /\ \E i \in 1..Len(assets), n \in 1..Len(trend) :
              /\ AtOrBefore(assets[i].history, parseDate(trend[n].date)) = {}
              /\ AssetValueAt(assets[i], trend[n].date) = 0

\* the sum of the contributions of the assets at the given positions
RECURSIVE ContributionSum(_, _, _)
ContributionSum(as, positions, date) ==
    IF positions = {} THEN 0
    ELSE LET i == CHOOSE p \in positions : TRUE
         IN  AssetValueAt(as[i], date) + ContributionSum(as, positions \ {i}, date)

Liabilities(as) == {i \in 1..Len(as) : as[i].category = LIABILITY}

\* C12: every point of the trend is the sum of the contributions of the
\* assets outside the liability category minus the sum of the contributions
\* of the assets in it.
C12_TrendIsSignedSum ==
    LET trend == globalHistory(assets)
    IN  \A n \in 1..Len(trend) :
            trend[n].value =
                ContributionSum(assets, (1..Len(assets)) \ Liabilities(assets), trend[n].date)
                    - ContributionSum(assets, Liabilities(assets), trend[n].date)

\* one liability of 500 and one other asset of 2000 with snapshots on the
\* same date: the point of that date is 1500
C12_Witness ==
    LET trend == globalHistory(assets)
    IN  /\ Len(assets) = 2
        /\ \E i, j \in 1..2, n \in 1..Len(trend) :
              /\ assets[i].category = LIABILITY
              /\ assets[j].category # LIABILITY
              /\ \E k \in 1..Len(assets[i].history) :
                    assets[i].history[k] = HistoryPoint(trend[n].date, 500)
              /\ \E k \in 1..Len(assets[j].history) :
                    assets[j].history[k] = HistoryPoint(trend[n].date, 2000)
              /\ AssetValueAt(assets[i], trend[n].date) = 500
              /\ AssetValueAt(assets[j], trend[n].date) = 2000
              /\ trend[n].value = 1500

---------------------------------------------------------------------------
(* Properties of handleUpdateAsset (SpecUpdate).                           *)

\* the last step was a call of handleUpdateAsset
UpdateAssetCalled == last.op = "handleUpdateAsset" /\ last.args.applied

\* the call carried a value
WithValue == "value" \in DOMAIN last.args.updates

\* the positions of the assets the call addressed
Addressed == {i \in 1..Len(last.pre.assets) : last.pre.assets[i].id = last.args.id}

\* the calendar day a date text names
DayOf(date) == date.y * YearLen + date.md - 1

\* the day it is where the user is
Today == localDay

\* C13: handleUpdateAsset(id, updates) with a value, for an existing id, sets
\* the asset's value to it, appends exactly one history point {date: today,
\* value} at the end of the history, leaves the earlier points unchanged and
\* in order, and sets lastUpdated to today.
C13_ValueUpdateAppendsSnapshot ==
    (UpdateAssetCalled /\ WithValue) =>
        /\ Len(assets) = Len(last.pre.assets)
        /\ \A i \in Addressed :
              LET before == last.pre.assets[i]
                  after == assets[i]
                  n == Len(before.history)
              IN  /\ after.value = last.args.updates.value
                  /\ Len(after.history) = n + 1
                  /\ SubSeq(after.history, 1, n) = before.history
                  /\ after.history[n + 1].value = last.args.updates.value
                  /\ DayOf(after.history[n + 1].date) = Today
                  /\ DayOf(after.lastUpdated) = Today

\* C14: handleUpdateAsset(id, updates) without a value, for an existing id,
\* merges the given fields into the asset, leaves its history and its value
\* unchanged, and still sets lastUpdated to the current date.
C14_MetadataUpdateKeepsHistory ==
    (UpdateAssetCalled /\ ~WithValue) =>
        \A i \in Addressed :
            LET before == last.pre.assets[i]
                after == assets[i]
                given == DOMAIN last.args.updates
            IN  /\ \A f \in given \ {"lastUpdated", "history"} :
                      after[f] = last.args.updates[f]
                /\ \A f \in (DOMAIN before) \ (given \cup {"lastUpdated"}) :
                      after[f] = before[f]
                /\ after.history = before.history
                /\ after.value = before.value
                /\ after.lastUpdated = YMDDate(Today)

\* a call without a value that moved an existing asset to another category
\* on a day other than the one it was last updated on
C14_Witness ==
    /\ UpdateAssetCalled /\ ~WithValue
    /\ \E i \in Addressed :
          /\ "category" \in DOMAIN last.args.updates
          /\ last.pre.assets[i].category # assets[i].category
          /\ last.pre.assets[i].lastUpdated # assets[i].lastUpdated
          /\ Len(assets[i].history) >= 2

\* C15: a metadata edit of an asset (its amount left as it was), the one the
\* edit dialog submits included, appends no snapshot: the history after the
\* edit equals the history before.
C15_MetadataEditAppendsNoSnapshot ==
    (UpdateAssetCalled /\ last.args.via # "card") =>
        \A i \in Addressed :
            (WithValue => last.args.updates.value = last.pre.assets[i].value)
                => assets[i].history = last.pre.assets[i].history

\* C16: handleUpdateAsset(id, updates) changes only the assets whose id is
\* id: every other asset is unchanged, the number and the order of the assets
\* are unchanged, and when no asset has the id the ledger is unchanged.
C16_UpdateTouchesOnlyTheAsset ==
    UpdateAssetCalled =>
        /\ Len(assets) = Len(last.pre.assets)
        /\ \A i \in 1..Len(last.pre.assets) :
              /\ assets[i].id = last.pre.assets[i].id
              /\ i \notin Addressed => assets[i] = last.pre.assets[i]
        /\ Addressed = {} => assets = last.pre.assets

\* a call for an id no asset has, after a call that changed the first of
\* several assets
C16_Witness ==
    /\ UpdateAssetCalled
    /\ Addressed = {}
    /\ Len(assets) >= 2
    /\ assets = last.pre.assets
    /\ assets[1].lastUpdated # InitialLastUpdated
    /\ assets[2].lastUpdated = InitialLastUpdated

---------------------------------------------------------------------------
(* Properties of the histories of the assets (SpecLedger).                 *)

\* C17: in every reachable state every asset of the ledger has a non-empty
\* history.
C17_HistoryNeverEmpty ==
    \A i \in 1..Len(assets) : Len(assets[i].history) >= 1

IsPrefix(s, t) == Len(s) <= Len(t) /\ SubSeq(t, 1, Len(s)) = s

\* C18: histories are append-only: for every operation that keeps an asset in
\* the ledger, its history before the operation is a prefix of its history
\* after the operation.
C18_HistoryAppendOnly ==
    last.op # "init" =>
        \A i \in 1..Len(last.pre.assets), j \in 1..Len(assets) :
            last.pre.assets[i].id = assets[j].id =>
                IsPrefix(last.pre.assets[i].history, assets[j].history)

---------------------------------------------------------------------------
(* Properties of export and import (SpecBackup).                           *)

\* the last step imported the document that was exported before
ImportedTheBackup ==
    /\ last.op = "handleImportData"
    /\ last.args.text.kind = "json"
    /\ last.args.text = backup

\* C19: export followed by import is a round trip: after the exported
\* document is imported, whatever happened in between, every exported
\* component of the state is deep-equal to what was exported.
C19_ExportImportRoundTrip ==
    ImportedTheBackup => ExportData = backup.data

\* C20: when the text given to import is blank or cannot be parsed, the
\* import reports an error and leaves assets, budgets, both registries, the
\* color map and the theme color as they were.
C20_FailedImportChangesNothing ==
    (last.op = "handleImportData" /\ last.args.text.kind \in {"empty", "blank", "garbage"})
        => /\ last.args.alert \in {ALERT_PASTE, ALERT_IMPORT_FAILED, ALERT_INVALID}
           /\ Snapshot = last.pre

\* an import of text that is no JSON, while a backup exists that differs
\* from the state in its ledgers
C20_Witness ==
    /\ last.op = "handleImportData"
    /\ last.args.text.kind = "garbage"
    /\ backup # NoBackup
    /\ backup.data.assets # JsonAssets(assets)
    /\ assets # <<>>

\* the last step was an import that reported success
ImportSucceeded ==
    /\ last.op = "handleImportData"
    /\ last.args.alert \in {ALERT_IMPORTED, ALERT_RESTORED}

\* the persisted collections, and the value of one that holds nothing
PersistedCollections ==
    {"assets", "budgets", "budgetCategoryList", "assetCategoryList", "customCategoryColors"}
EmptyCollection(f) == <<>>

\* C21: a successful import replaces the state wholesale, with no merge:
\* each persisted collection is the one of the document and, when the
\* document omits it, keeps nothing of the state before the import; and the
\* replacement happens only after the user has confirmed it.
C21_ImportReplacesWholesale ==
    ImportSucceeded =>
        /\ last.args.confirmed
        /\ \A f \in PersistedCollections :
              IF f \in DOMAIN last.args.text.data
              THEN Imported[f] = last.args.text.data[f]
              ELSE Imported[f] = EmptyCollection(f) \/ last.pre[f] = EmptyCollection(f)

---------------------------------------------------------------------------
(* Properties of the insight service (SpecInsight).                        *)

InsightFields == {"summary", "suggestions", "riskLevel"}

\* the failures of the service: the call rejects, the response is empty or
\* cannot be parsed
ServiceFailures == {"rejects", "text undefined", "text empty", "text no JSON"}

\* C22: getAIInsights never fails towards its caller: its promise is never
\* rejected, after every failure of the service it resolves to the fallback
\* triple, and every resolved result has the fields summary, suggestions and
\* riskLevel.
C22_InsightNeverFails ==
    /\ insight.pc # "rejected"
    /\ insight.pc = "resolved" =>
          /\ InsightFields \subseteq DOMAIN insight.value
          /\ insight.cause \in ServiceFailures => insight.value = FALLBACK_INSIGHT

---------------------------------------------------------------------------
(* Properties of the amount inputs (SpecAmounts).                          *)

\* an amount input has just been saved with a text that is no number
NonNumericAmountEntered ==
    /\ last.op \in {"handleUpdateAsset", "handleUpdateBudget", "handleQuickAdd",
                    "handleManualAddTransaction", "handleSaveTotalLimit", "handleSubmit"}
    /\ "text" \in DOMAIN last.args
    /\ isNaN(parseFloat(last.args.text))

\* the add/edit form has just been submitted without a name
EmptyNameEntered ==
    last.op = "handleSubmit" /\ last.args.name = EMPTY

\* C23: an amount that does not parse as a number, or an empty asset name, is
\* rejected: after any amount-entry path is given such an input every asset
\* and every budget row is exactly as before.
C23_BadAmountRejected ==
    (NonNumericAmountEntered \/ EmptyNameEntered) =>
        assets = last.pre.assets /\ budgets = last.pre.budgets

---------------------------------------------------------------------------
(* Properties of persistence (SpecPersist).                                *)

\* the key each persisted collection is stored under
KeyOf(f) ==
    CASE f = "assets" -> "assets_data"
      [] f = "budgets" -> "budget_data"
      [] f = "budgetCategoryList" -> "budget_category_list"
      [] f = "assetCategoryList" -> "asset_category_list"
      [] f = "customCategoryColors" -> "category_colors_map"

\* a collection as it reads after JSON.stringify and JSON.parse: an asset
\* whose notes are undefined has no notes
AsStored(f, value) == IF f = "assets" THEN JsonAssets(value) ELSE value

\* the page has just been reloaded
Reloaded == last.op = "mount" /\ last.pre # NoArgs

\* C24: after every processed mutation the item stored under each key is
\* the JSON of the in-memory collection, a reload restores every persisted
\* collection as it was in memory before the reload, and a first render
\* over a store with an absent key gives that collection its hardcoded
\* default.
C24_StorageFollowsState ==
    /\ \A f \in PersistedCollections :
          storage[KeyOf(f)] = [kind |-> "json", data |-> AsStored(f, Snapshot[f])]
    /\ Reloaded =>
          \A f \in PersistedCollections : Snapshot[f] = AsStored(f, last.pre[f])
    /\ last.op = "mount" =>
          \A f \in PersistedCollections :
              last.args.store[KeyOf(f)].kind = "absent" =>
                  Snapshot[f] = Hydrated([k \in StorageKeys |-> NoItem],
                                         build, StartDay, 50)[f]

\* a reload that follows a saved asset value, with a color map that is not
\* the default one
C24_Witness ==
    /\ Reloaded
    /\ steps = MaxSteps
    /\ customCategoryColors # CategoryColors_App
    /\ customCategoryColors # CategoryColors_part_004
    /\ \E i \in 1..Len(assets) : assets[i].value = 100

---------------------------------------------------------------------------
(* Properties of the transaction lists (SpecBudget, part_004).             *)

\* every transaction recorded in a ledger
TransactionsOf(bs) ==
    {bs[j].transactions[k] : <<j, k>> \in
        {p \in (1..Len(bs)) \X (1..MaxSteps) : p[2] <= Len(bs[p[1]].transactions)}}

\* spend has just been recorded on a row
SpendRecorded ==
    /\ build = "part_004"
    /\ last.op \in {"handleQuickAdd", "handleManualAddTransaction"}
    /\ last.args.applied

\* C25: recording spend of amount a on a row puts exactly one new
\* transaction of amount a in front of the row's list, adds a to the row's
\* spentThisMonth and leaves the transactions of every row as they were; no
\* other operation modifies or removes a recorded transaction.
C25_TransactionsOnlyGrow ==
    build = "part_004" /\ last.op # "init" =>
        IF SpendRecorded
        THEN LET i == last.args.index
                 a == last.args.text.val
                 pre == last.pre.budgets
             IN  /\ Len(budgets) = Len(pre)
                 /\ Len(budgets[i].transactions) = Len(pre[i].transactions) + 1
                 /\ Head(budgets[i].transactions).amount = a
                 /\ Tail(budgets[i].transactions) = pre[i].transactions
                 /\ budgets[i].spentThisMonth = pre[i].spentThisMonth + a
                 /\ \A j \in (1..Len(pre)) \ {i} :
                        budgets[j].transactions = pre[j].transactions
        ELSE TransactionsOf(last.pre.budgets) \subseteq TransactionsOf(budgets)

---------------------------------------------------------------------------
(* Properties of consecutive updates (SpecSerial).                         *)

\* the budget ledger of the first render
InitialBudgets == IF build = "App" THEN INITIAL_BUDGETS_App ELSE INITIAL_BUDGETS_part_004

\* the second of two spend-recording operations has just been applied, the
\* first having been applied to the same row
TwoRecordings ==
    /\ steps = 2
    /\ last.op \in {"handleQuickAdd", "handleManualAddTransaction"}
    /\ last.args.applied
    /\ last.pre.budgets[last.args.index] # InitialBudgets[last.args.index]

---------------------------------------------------------------------------
(* Properties of the net worth (SpecNetWorth).                             *)

\* C27: after any sequence of add-asset and value-update operations from the
\* initial ledger, several updates of one asset on one day included, the
\* last point of the net-worth trend is the net worth stats shows.
C27_TrendEndsAtNetWorth ==
    steps >= 1 =>
        LET trend == globalHistory(assets)
        IN  /\ trend # <<>>
            /\ trend[Len(trend)].value = stats(assets).netWorth

---------------------------------------------------------------------------
(* Properties of the reserved Total name (SpecBudget).                     *)

TotalRows(bs) == {i \in 1..Len(bs) : IsTotalRow(bs[i])}

\* C28: in every reachable state at most one budget row has the reserved
\* Total name as its category: no add, rename or delete of a category and
\* no edit of a budget row makes a user row a second Total row.
C28_AtMostOneTotalRow ==
    Cardinality(TotalRows(budgets)) <= 1

---------------------------------------------------------------------------
(* Properties of the totals under category changes (SpecCategory).         *)

\* C29: renaming or deleting an asset category, the liability category
\* included, changes only labels: the totals of stats and every point of the
\* net-worth trend are the same after the operation as before.
C29_CategoryChangeKeepsTotals ==
    (/\ last.op \in {"handleRenameCategoryAction", "handleDeleteCategoryAction"}
     /\ last.args.type = "asset") =>
        /\ stats(assets) = stats(last.pre.assets)
        /\ globalHistory(assets) = globalHistory(last.pre.assets)

---------------------------------------------------------------------------
(* Properties of the startup of the IndexedDB variant (SpecStartup).       *)

\* the item of a key is the one the store held when the application started
KeptInDB(n) ==
    /\ idb[n].kind = boot.before[n].kind
    /\ idb[n].kind = "value" => idb[n].data = boot.before[n].data

\* C30: when a loadFromDB call of loadAllData has rejected, no saveToDB call
\* replaces the stored 'assets_data' or 'budget_data' by the empty in-memory
\* collections, in any interleaving of the load and the save effects.
C30_FailedLoadKeepsStoredData ==
    boot.failed =>
        \A n \in {1, 2} : boot.before[n].kind = "value" => KeptInDB(n)

====
